---- MODULE Spec2Model ----
(***************************************************************************)
(* Model of the curatore document service: the triage planner              *)
(* (triage_service.py), the Docling health tracker                         *)
(* (docling_health_service.py), the Docling proxy                          *)
(* (docling_proxy_service.py), the fast PDF reader                         *)
(* (pdf_extraction_service.py) and the extraction entry point              *)
(* (api/v1/routers/extract.py).                                            *)
(*                                                                         *)
(* Strings whose content matters (file suffixes, extracted text) are       *)
(* sequences of one-character strings, so that lower() and strip() are     *)
(* computed.  Python's None is the string "None"; an Optional[bool] is one *)
(* of "None", "True", "False".  A dict is a function whose DOMAIN is the   *)
(* set of keys present.                                                    *)
(***************************************************************************)
EXTENDS Integers, Sequences, FiniteSets, TLC

VARIABLES
    DOCLING_SERVICE_URL,  \* settings.DOCLING_SERVICE_URL, fixed for the process
    SERVICE_API_KEY,      \* settings.SERVICE_API_KEY, fixed for the process
    gate,                 \* the last request seen by ApiKeyMiddleware and its answer
    fitz_available,       \* whether PyMuPDF imports (TriageService._fitz_available)
    is_reachable,         \* DoclingHealthService._is_reachable
    last_check_time,      \* DoclingHealthService._last_check_time
    last_error,           \* DoclingHealthService._last_error
    last_op,              \* the last call made to the tracker or to a system endpoint
    docling_available,    \* "docling_available" of the last /system/capabilities answer
    now,                  \* time.monotonic(), seconds
    detected_endpoint,    \* docling_proxy_service._detected_endpoint
    detecting,            \* the concurrent calls of _detect_endpoint: position, requests, result
    checking,             \* the concurrent calls of check_health: position, probes, result
    targs,                \* arguments of the last direct triage() call
    tplan,                \* plan returned by the last direct triage() call
    tfirst,               \* the first direct triage() call: its arguments and plan
    pc,                   \* position of the running call: idle, detect, post, done
    caller,               \* who runs extract_via_docling: "extract" or "direct"
    file,                 \* the upload of the extract request
    engine,               \* the engine query parameter of the extract request
    triage_plan,          \* extract(): triage_plan
    selected_engine,      \* extract(): selected_engine
    invoked,              \* backends invoked by the request, in order
    response,             \* the HTTP response of the extract request
    max_retries,          \* extract_via_docling(): max_retries
    docling_params,       \* extract_via_docling(): docling_params
    attempt,              \* extract_via_docling(): loop variable
    detected,             \* extract_via_docling(): detected (this attempt)
    posts,                \* file POSTs sent in the current attempt
    sent,                 \* those POSTs: endpoint, field name, parameters, answer
    evaluated,            \* which of them gave the response that is evaluated (0: none)
    current_timeout,      \* extract_via_docling(): current_timeout (this attempt)
    attempts_made,        \* HTTP clients opened by the current call, one per attempt
    only_transport,       \* every finished attempt of the call ended in a raised POST
    net_used,             \* whether the current call sent any network request
    outcome,              \* how the last finished attempt of the proxy ended
    raised,               \* whether the last backend call raised instead of returning
    result                \* tuple returned by the last backend call

vars == <<DOCLING_SERVICE_URL, SERVICE_API_KEY, gate, fitz_available, is_reachable, last_check_time,
          last_error, last_op, docling_available, now, detected_endpoint, detecting, checking, targs, tplan, tfirst, pc, caller, file,
          engine, triage_plan, selected_engine, invoked, response, max_retries,
          docling_params, attempt, detected, posts, sent, evaluated, current_timeout,
          attempts_made, only_transport, net_used, outcome, raised,
          result>>

None == "None"

----------------------------------------------------------------------------
(* Text *)

\* Longest extracted text the model draws.
MaxLen == 2

Chars == {" ", "a"}

RECURSIVE StrsUpTo(_)
StrsUpTo(n) ==
    IF n = 0 THEN {<<>>}
    ELSE LET shorter == StrsUpTo(n - 1)
         IN  shorter \cup {Append(s, c) : s \in {t \in shorter : Len(t) = n - 1}, c \in Chars}

Strs == StrsUpTo(MaxLen)

IsSpace(c) == c \in {" ", "\n", "\t"}

RECURSIVE LStrip(_)
LStrip(s) == IF s # <<>> /\ IsSpace(Head(s)) THEN LStrip(Tail(s)) ELSE s

RECURSIVE RStrip(_)
RStrip(s) ==
    IF s # <<>> /\ IsSpace(s[Len(s)]) THEN RStrip(SubSeq(s, 1, Len(s) - 1)) ELSE s

\* str.strip()
Strip(s) == RStrip(LStrip(s))

\* truthiness of a str
Truthy(s) == Len(s) > 0

LowerChar(c) ==
    CASE c = "P" -> "p" [] c = "D" -> "d" [] c = "F" -> "f" [] c = "N" -> "n"
      [] c = "G" -> "g" [] c = "J" -> "j" [] c = "T" -> "t" [] c = "X" -> "x"
      [] c = "O" -> "o" [] c = "C" -> "c" [] c = "M" -> "m"
      [] OTHER -> c

\* str.lower()
Lower(s) == [i \in 1..Len(s) |-> LowerChar(s[i])]

----------------------------------------------------------------------------
(* triage_service.py: file extension groups *)

PDF_EXTENSIONS == {<<".", "p", "d", "f">>}
OFFICE_DOCUMENT_EXTENSIONS == {<<".", "d", "o", "c", "x">>, <<".", "d", "o", "c">>}
OFFICE_PRESENTATION_EXTENSIONS == {<<".", "p", "p", "t", "x">>, <<".", "p", "p", "t">>}
OFFICE_SPREADSHEET_EXTENSIONS ==
    {<<".", "x", "l", "s", "x">>, <<".", "x", "l", "s">>, <<".", "x", "l", "s", "b">>}
OFFICE_EXTENSIONS ==
    OFFICE_DOCUMENT_EXTENSIONS \cup OFFICE_PRESENTATION_EXTENSIONS
        \cup OFFICE_SPREADSHEET_EXTENSIONS
IMAGE_EXTENSIONS ==
    {<<".", "p", "n", "g">>, <<".", "j", "p", "g">>, <<".", "j", "p", "e", "g">>,
     <<".", "g", "i", "f">>, <<".", "b", "m", "p">>, <<".", "t", "i", "f", "f">>,
     <<".", "t", "i", "f">>, <<".", "w", "e", "b", "p">>}
TEXT_EXTENSIONS ==
    {<<".", "t", "x", "t">>, <<".", "m", "d">>,
     <<".", "m", "a", "r", "k", "d", "o", "w", "n">>, <<".", "r", "s", "t">>,
     <<".", "c", "s", "v">>, <<".", "j", "s", "o", "n">>, <<".", "x", "m", "l">>,
     <<".", "h", "t", "m", "l">>, <<".", "h", "t", "m">>}

DocxExt == <<".", "d", "o", "c", "x">>

\* mimetypes.guess_extension(mime_type) or "", on the MIME types the model draws
GuessExtension(mime_type) ==
    CASE mime_type = "application/pdf" -> <<".", "p", "d", "f">>
      [] mime_type = "image/png" -> <<".", "p", "n", "g">>
      [] mime_type = "text/plain" -> <<".", "t", "x", "t">>
      [] OTHER -> <<>>

\* settings (config.py)
PDF_BLOCK_THRESHOLD == 50
PDF_IMAGE_THRESHOLD == 3
PDF_PAGES_TO_ANALYZE == 3
OFFICE_SIZE_THRESHOLD == 5242880
DOCLING_TIMEOUT == 300

Min(a, b) == IF a < b THEN a ELSE b

\* bool(settings.DOCLING_SERVICE_URL)
IsConfigured(url) == url # ""

----------------------------------------------------------------------------
(* triage_service.py: the planner *)

\* a planner that sends images to the generic converter
_triage_image_as_markitdown(ext) ==
    [file_type |-> ext, engine |-> "markitdown", needs_ocr |-> FALSE,
     needs_layout |-> FALSE, complexity |-> "low",
     reason |-> <<"Standalone image files are not supported">>]

_triage_image(ext) ==
    [file_type |-> ext, engine |-> "unsupported", needs_ocr |-> FALSE,
     needs_layout |-> FALSE, complexity |-> "low",
     reason |-> <<"Standalone image files are not supported">>]

\* a planner that takes text files for documents with a layout
_triage_text_as_layout(ext) ==
    [file_type |-> ext, engine |-> "markitdown", needs_ocr |-> FALSE,
     needs_layout |-> TRUE, complexity |-> "medium",
     reason |-> <<"Text-based file, using MarkItDown">>]

_triage_text(ext) ==
    [file_type |-> ext, engine |-> "markitdown", needs_ocr |-> FALSE,
     needs_layout |-> FALSE, complexity |-> "low",
     reason |-> <<"Text-based file, using MarkItDown">>]

\* an OCR test that forgets to average over the sampled pages
NeedsOcrOfTotal(total_text_length, pages_to_check) == total_text_length < 100

\* _triage_pdf(): "needs_ocr = avg_text_per_page < 100", where
\* avg_text_per_page = total_text_length / pages_to_check (0 without pages),
\* compared without dividing
NeedsOcr(total_text_length, pages_to_check) ==
    IF pages_to_check > 0 THEN total_text_length < 100 * pages_to_check
    ELSE TRUE

\* a tier that lets the layout decide before the OCR need
PdfComplexityLayoutFirst(needs_ocr, is_complex_layout) ==
    IF is_complex_layout THEN "medium"
    ELSE IF needs_ocr THEN "high" ELSE "low"

\* _triage_pdf(): "if needs_ocr: complexity = high / elif is_complex_layout:
\* medium / else: low"
PdfComplexity(needs_ocr, is_complex_layout) ==
    IF needs_ocr THEN "high"
    ELSE IF is_complex_layout THEN "medium" ELSE "low"

\* a backend switch that already applies to a document of 50 pages
IsLongPdfFrom50(total_pages) == total_pages >= 50

\* _triage_pdf(): "if total_pages > 50" of the docling parameters
IsLongPdf(total_pages) == total_pages > 50

\* a cautious routing that never asks for the advanced engine
CautiousEngineFast(docling_enabled) == "fast_pdf"

\* _triage_pdf(): the engine of both fallback plans,
\* "docling" if docling_enabled else "fast_pdf"
CautiousEngine(docling_enabled) == IF docling_enabled THEN "docling" ELSE "fast_pdf"

\* f.pdf is what PyMuPDF finds in the file: ok = FALSE when opening or
\* analysing raises; otherwise the totals over the sampled pages.
_triage_pdf(f, ext, docling_enabled, fitz) ==
    IF ~fitz THEN
        [file_type |-> ext,
         engine |-> CautiousEngine(docling_enabled),
         needs_ocr |-> FALSE, needs_layout |-> FALSE, complexity |-> "medium",
         reason |-> <<"PyMuPDF not available, using fallback routing">>]
    ELSE IF ~f.pdf.ok THEN
        [file_type |-> ext,
         engine |-> CautiousEngine(docling_enabled),
         needs_ocr |-> FALSE, needs_layout |-> TRUE, complexity |-> "medium",
         reason |-> <<"PDF analysis failed", "error", "using cautious routing">>]
    ELSE
        LET a == f.pdf
            pages_to_check == Min(PDF_PAGES_TO_ANALYZE, a.total_pages)
            \* avg_x = total_x / pages_to_check, compared without dividing
            needs_ocr == NeedsOcr(a.total_text_length, pages_to_check)
            many_blocks ==
                pages_to_check > 0 /\ a.total_blocks > PDF_BLOCK_THRESHOLD * pages_to_check
            many_images ==
                pages_to_check > 0 /\ a.total_images > PDF_IMAGE_THRESHOLD * pages_to_check
            is_complex_layout ==
                many_blocks \/ many_images \/ a.has_tables \/ a.has_multi_column
            complexity == PdfComplexity(needs_ocr, is_complex_layout)
            eng == IF needs_ocr \/ is_complex_layout THEN "docling" ELSE "fast_pdf"
            reason ==
                IF needs_ocr THEN <<"PDF needs OCR">>
                ELSE IF is_complex_layout THEN
                    <<"Complex PDF layout:">>
                    \o (IF many_blocks THEN <<"blocks/page">> ELSE <<>>)
                    \o (IF many_images THEN <<"images/page">> ELSE <<>>)
                    \o (IF a.has_tables THEN <<"tables detected">> ELSE <<>>)
                    \o (IF a.has_multi_column THEN <<"multi-column layout">> ELSE <<>>)
                ELSE <<"Simple single-column text PDF">>
            keys == {"table_mode"}
                    \cup (IF ~needs_ocr THEN {"do_ocr"} ELSE {})
                    \cup (IF IsLongPdf(a.total_pages) THEN {"pdf_backend"} ELSE {})
            params ==
                [k \in keys |->
                    CASE k = "do_ocr" -> FALSE
                      [] k = "pdf_backend" -> "pypdfium2"
                      [] OTHER -> IF a.has_tables THEN "accurate" ELSE "fast"]
        IN  [file_type |-> ext, engine |-> eng, needs_ocr |-> needs_ocr,
             needs_layout |-> is_complex_layout, complexity |-> complexity,
             reason |-> reason, page_count |-> a.total_pages,
             table_count |-> a.table_count, docling_params |-> params]

\* a size test that leaves out a file of exactly the threshold
IsLargeOfficeStrict(file_size) == file_size > OFFICE_SIZE_THRESHOLD

\* _triage_office(): "is_complex = file_size >= settings.OFFICE_SIZE_THRESHOLD"
IsLargeOffice(file_size) == file_size >= OFFICE_SIZE_THRESHOLD

\* _triage_office(): "analysis["table_count"] > 3 and file_size > 2.5 * 1024
\* * 1024", compared in tenths of a byte
ManyTables(analysis, file_size) ==
    analysis.table_count > 3 /\ 10 * file_size > 25 * 1024 * 1024

\* f.docx is what _analyze_docx returns for the file: ok = FALSE for None.  It
\* is asked for only when the extension is .docx.
_triage_office(f, ext, docling_enabled) ==
    LET file_size == f.size
        analysis == f.docx
        many_tables == ManyTables(analysis, file_size)
        needs_docling ==
            analysis.has_complex_tables \/ analysis.image_count > 3 \/ many_tables
        is_complex == IsLargeOffice(file_size)
    IN  IF ext = DocxExt /\ docling_enabled /\ analysis.ok /\ needs_docling THEN
            [file_type |-> ext, engine |-> "docling", needs_ocr |-> FALSE,
             needs_layout |-> TRUE, complexity |-> "medium",
             reason |-> <<"DOCX content analysis:">>
                 \o (IF analysis.has_complex_tables
                     THEN <<"complex tables (nested/merged)">> ELSE <<>>)
                 \o (IF analysis.image_count > 3 THEN <<"images">> ELSE <<>>)
                 \o (IF many_tables THEN <<"tables in file">> ELSE <<>>)]
        ELSE IF is_complex /\ docling_enabled THEN
            [file_type |-> ext, engine |-> "docling", needs_ocr |-> FALSE,
             needs_layout |-> TRUE, complexity |-> "medium",
             reason |-> <<"Large Office file", "using Docling for better layout">>]
        ELSE
            [file_type |-> ext, engine |-> "markitdown", needs_ocr |-> FALSE,
             needs_layout |-> FALSE, complexity |-> "low",
             reason |-> <<"Office file", "using MarkItDown">>]

\* an extension taken as written, upper case included
TriageExtAsWritten(f) ==
    LET ext == f.suffix
    IN  IF ext = <<>> /\ f.mime # None /\ f.mime # "" THEN GuessExtension(f.mime) ELSE ext

\* triage(): the extension the plan is made for
TriageExt(f) ==
    LET ext == Lower(f.suffix)
    IN  IF ext = <<>> /\ f.mime # None /\ f.mime # "" THEN GuessExtension(f.mime) ELSE ext

\* a default that asks the health tracker instead of the configuration
EffectiveEnabledFromTracker(docling_enabled, url) ==
    IF docling_enabled = None THEN IsConfigured(url) /\ is_reachable # "False"
    ELSE docling_enabled = "True"

\* triage(): docling_enabled after the default is applied
EffectiveEnabled(docling_enabled, url) ==
    IF docling_enabled = None THEN IsConfigured(url) ELSE docling_enabled = "True"

\* triage(): the plan before the downgrade pass
InitialPlan(f, ext, docling_enabled, fitz) ==
    IF ext \in IMAGE_EXTENSIONS THEN _triage_image(ext)
    ELSE IF ext \in PDF_EXTENSIONS THEN _triage_pdf(f, ext, docling_enabled, fitz)
    ELSE IF ext \in OFFICE_EXTENSIONS THEN _triage_office(f, ext, docling_enabled)
    ELSE IF ext \in TEXT_EXTENSIONS THEN _triage_text(ext)
    ELSE [file_type |-> ext, engine |-> "markitdown", needs_ocr |-> FALSE,
          needs_layout |-> FALSE, complexity |-> "low",
          reason |-> <<"Unknown file type", "using markitdown as fallback">>]

\* a downgrade pass that leaves the plan as it is
DowngradePassKeepsDocling(plan, ext, docling_enabled) == plan

\* a downgrade pass that sends every category to markitdown
DowngradePassAlwaysMarkitdown(plan, ext, docling_enabled) ==
    IF ~docling_enabled /\ plan.engine = "docling" THEN
        [file_type |-> ext, engine |-> "markitdown", needs_ocr |-> plan.needs_ocr,
         needs_layout |-> plan.needs_layout, complexity |-> plan.complexity,
         reason |-> <<"Docling disabled, falling back from", plan.engine, "to markitdown">>]
    ELSE plan

\* a downgrade pass that changes engine and reason in the plan it was given
DowngradePassInPlace(plan, ext, docling_enabled) ==
    IF ~docling_enabled /\ plan.engine = "docling" THEN
        [plan EXCEPT
            !.engine = IF ext \in PDF_EXTENSIONS THEN "fast_pdf" ELSE "markitdown",
            !.reason = <<"Docling disabled, falling back from", plan.engine,
                         IF ext \in PDF_EXTENSIONS THEN "to fast_pdf" ELSE "to markitdown">>]
    ELSE plan

\* triage(): "If Docling is not enabled, fall back to fast engines"
DowngradePass(plan, ext, docling_enabled) ==
    IF ~docling_enabled /\ plan.engine = "docling" THEN
        IF ext \in PDF_EXTENSIONS THEN
            [file_type |-> ext, engine |-> "fast_pdf", needs_ocr |-> plan.needs_ocr,
             needs_layout |-> plan.needs_layout, complexity |-> plan.complexity,
             reason |-> <<"Docling disabled, falling back from", plan.engine, "to fast_pdf">>]
        ELSE
            [file_type |-> ext, engine |-> "markitdown", needs_ocr |-> plan.needs_ocr,
             needs_layout |-> plan.needs_layout, complexity |-> plan.complexity,
             reason |-> <<"Docling disabled, falling back from", plan.engine, "to markitdown">>]
    ELSE plan

\* TriageService.triage(file_path, mime_type, docling_enabled); the wall-clock
\* triage_duration_ms stamped on the plan is not modelled.
Triage(f, docling_enabled, url, fitz) ==
    LET enabled == EffectiveEnabled(docling_enabled, url)
        ext == TriageExt(f)
    IN  DowngradePass(InitialPlan(f, ext, enabled, fitz), ext, enabled)

----------------------------------------------------------------------------
(* The uploads the model draws *)

NoPdf ==
    [ok |-> FALSE, total_pages |-> 0, total_text_length |-> 0, total_blocks |-> 0,
     total_images |-> 0, table_count |-> 0, has_tables |-> FALSE,
     has_multi_column |-> FALSE]

\* a document that opens and has no page: every total is 0
EmptyPdf ==
    [ok |-> TRUE, total_pages |-> 0, total_text_length |-> 0, total_blocks |-> 0,
     total_images |-> 0, table_count |-> 0, has_tables |-> FALSE,
     has_multi_column |-> FALSE]

PdfAnalyses ==
    {NoPdf, EmptyPdf} \cup
    {a \in [ok : {TRUE}, total_pages : {1, 3, 50, 51},
            total_text_length : {99, 100, 299, 300},
            total_blocks : {50, 51, 151}, total_images : {3, 4, 10},
            table_count : {0, 2}, has_tables : BOOLEAN,
            has_multi_column : BOOLEAN] :
        a.table_count > 0 => a.has_tables}

NoDocx == [ok |-> FALSE, table_count |-> 0, image_count |-> 0, has_complex_tables |-> FALSE]

\* nested or merged tables are looked for in the tables found
DocxAnalyses ==
    {NoDocx} \cup
    {d \in [ok : {TRUE}, table_count : {0, 4}, image_count : {0, 3, 4},
            has_complex_tables : BOOLEAN] :
        d.has_complex_tables => d.table_count > 0}

\* 2.5 MB, one byte more, one byte under the office threshold, the threshold
Sizes == {0, 2621440, 2621441, 5242879, 5242880}

MkFile(suffix, mime, size, pdf, docx) ==
    [suffix |-> suffix, mime |-> mime, size |-> size, pdf |-> pdf, docx |-> docx]

ImageFiles ==
    {MkFile(sx, "image/png", 0, NoPdf, NoDocx) :
        sx \in {<<".", "p", "n", "g">>, <<".", "P", "N", "G">>, <<".", "j", "p", "g">>, <<>>}}

PdfFiles ==
    {MkFile(sx, "application/pdf", 0, a, NoDocx) :
        sx \in {<<".", "p", "d", "f">>, <<".", "P", "D", "F">>, <<>>}, a \in PdfAnalyses}

DocxFiles ==
    {MkFile(DocxExt, None, sz, NoPdf, d) : sz \in Sizes, d \in DocxAnalyses}

\* files named .doc whose content is a word-processing archive (a .docx saved
\* under the older extension): _analyze_docx would return signals for them
DocFiles ==
    {MkFile(<<".", "d", "o", "c">>, None, sz, NoPdf, d) :
        sz \in Sizes, d \in DocxAnalyses \ {NoDocx}}

OtherOfficeFiles ==
    {MkFile(sx, None, sz, NoPdf, NoDocx) :
        sx \in {<<".", "d", "o", "c">>, <<".", "p", "p", "t", "x">>,
                <<".", "x", "l", "s", "x">>, <<".", "x", "l", "s", "b">>},
        sz \in Sizes}

TextFiles ==
    {MkFile(sx, "text/plain", sz, NoPdf, NoDocx) :
        sx \in {<<".", "t", "x", "t">>, <<".", "T", "X", "T">>, <<".", "c", "s", "v">>,
                <<".", "M", "D">>, <<".", "h", "t", "m", "l">>, <<>>},
        sz \in {0, OFFICE_SIZE_THRESHOLD}}

UnknownFiles ==
    {MkFile(sx, m, 0, NoPdf, NoDocx) :
        sx \in {<<".", "x", "y", "z">>, <<>>},
        m \in {None, "", "application/x-unknown"}}

Files ==
    ImageFiles \cup PdfFiles \cup DocxFiles \cup DocFiles \cup OtherOfficeFiles \cup TextFiles
        \cup UnknownFiles

MkPdf(pages, text, tables, multi) ==
    [ok |-> TRUE, total_pages |-> pages, total_text_length |-> text,
     total_blocks |-> 50, total_images |-> 3, table_count |-> tables,
     has_tables |-> tables > 0, has_multi_column |-> multi]

\* The uploads sent through the extraction entry point: one or two per way
\* of planning.
ReqFiles ==
    { MkFile(<<".", "p", "n", "g">>, "image/png", 0, NoPdf, NoDocx),
      MkFile(<<".", "p", "d", "f">>, "application/pdf", 0, MkPdf(1, 99, 0, FALSE), NoDocx),
      MkFile(<<".", "p", "d", "f">>, "application/pdf", 0, MkPdf(1, 300, 0, FALSE), NoDocx),
      MkFile(<<".", "p", "d", "f">>, "application/pdf", 0, MkPdf(51, 300, 2, FALSE), NoDocx),
      MkFile(<<".", "p", "d", "f">>, "application/pdf", 0, NoPdf, NoDocx),
      MkFile(DocxExt, None, 0,
             NoPdf, [ok |-> TRUE, table_count |-> 0, image_count |-> 4,
                     has_complex_tables |-> FALSE]),
      MkFile(DocxExt, None, 0,
             NoPdf, [ok |-> TRUE, table_count |-> 0, image_count |-> 0,
                     has_complex_tables |-> FALSE]),
      MkFile(<<".", "p", "p", "t", "x">>, None, 5242880, NoPdf, NoDocx),
      MkFile(<<".", "t", "x", "t">>, "text/plain", 0, NoPdf, NoDocx),
      MkFile(<<".", "x", "y", "z">>, "application/x-unknown", 0, NoPdf, NoDocx) }

\* values of the engine query parameter
Overrides ==
    {None, "", "auto", "fast_pdf", "markitdown", "docling", "unsupported", "other"}

Urls == {"", "http://docling:8080", "http://docling:8080/v1alpha"}

\* "v1alpha" in service_url.lower()
HasAlphaMarker(url) == url = "http://docling:8080/v1alpha"

OptBool == {None, "True", "False"}

----------------------------------------------------------------------------
(* docling_health_service.py *)

\* Optional[float] None of _last_check_time (the monotonic clock is never negative)
NoTime == -1

_DEFAULT_TTL == 60

\* Seconds one Tick adds to the clock, and the last instant the model reaches.
TickSecs == 30
MaxTime == 60

\* what one GET of a health path can do
ProbeKinds == {"ok", "5xx", "http_error", "connect_error", "connect_timeout", "exception"}

\* the two probes of one check: the second path is asked only when the first
\* answered 5xx or raised a non-connection httpx.HTTPError
ProbePairs ==
    {pr \in ProbeKinds \X ProbeKinds : pr[1] \notin {"5xx", "http_error"} => pr[2] = "ok"}

\* an availability flag that waits for the first successful check
docling_enabled_pessimistic(url, reachable) ==
    IF ~IsConfigured(url) THEN FALSE ELSE reachable = "True"

\* DoclingHealthService.docling_enabled
docling_enabled_of(url, reachable) ==
    IF ~IsConfigured(url) THEN FALSE
    ELSE IF reachable = None THEN TRUE
    ELSE reachable = "True"

\* a recheck test that is due only after more than the TTL
needs_recheck_after_ttl(url, lct, t) ==
    IF ~IsConfigured(url) THEN FALSE
    ELSE IF lct = NoTime THEN TRUE
    ELSE (t - lct) > _DEFAULT_TTL

\* DoclingHealthService.needs_recheck()
needs_recheck(url, lct, t) ==
    IF ~IsConfigured(url) THEN FALSE
    ELSE IF lct = NoTime THEN TRUE
    ELSE (t - lct) >= _DEFAULT_TTL

\* check_health(): what the probes of /health and /openapi.json amount to:
\* the new reachability and last_error
ProbeResult(p1, p2) ==
    LET soft(p) == p \in {"5xx", "http_error"}
        last == IF soft(p1) THEN p2 ELSE p1
    IN  IF last = "ok" THEN [reachable |-> "True", error |-> None]
        ELSE IF last = "connect_error"
            THEN [reachable |-> "False", error |-> "Connection refused"]
        ELSE IF last \in {"connect_timeout", "exception"}
            THEN [reachable |-> "False", error |-> "exception text"]
        ELSE [reachable |-> "False", error |-> "All health endpoints returned 5xx"]

\* DoclingHealthService.check_health(force)
check_health(force, p1, p2) ==
    IF ~IsConfigured(DOCLING_SERVICE_URL) THEN
        /\ is_reachable' = "False"
        /\ last_error' = "DOCLING_SERVICE_URL not configured"
        /\ last_check_time' = now
    ELSE IF ~force /\ ~needs_recheck(DOCLING_SERVICE_URL, last_check_time, now) THEN
        UNCHANGED <<is_reachable, last_error, last_check_time>>
    ELSE
        LET r == ProbeResult(p1, p2)
        IN  /\ is_reachable' = r.reachable
            /\ last_error' = r.error
            /\ last_check_time' = now

configVars == <<DOCLING_SERVICE_URL, fitz_available>>
gateVars == <<SERVICE_API_KEY, gate>>
coVars == <<detecting, checking>>
trackerVars == <<is_reachable, last_check_time, last_error>>
healthVars == <<is_reachable, last_check_time, last_error, last_op, docling_available>>
triageVars == <<targs, tplan, tfirst>>
reqVars == <<file, engine, triage_plan, selected_engine, invoked, response>>
callVars == <<max_retries, docling_params, attempt, detected, posts, sent, evaluated,
              current_timeout, attempts_made, only_transport, net_used, outcome>>
runVars == <<pc, caller, result, raised, detected_endpoint>>

\* a direct call of check_health: the startup probe of main.lifespan
\* (force = True), or any other caller
CheckHealth(force, p1, p2) ==
    /\ check_health(force, p1, p2)
    /\ last_op' = "check"
    /\ UNCHANGED docling_available
    /\ UNCHANGED <<configVars, gateVars, coVars, now, triageVars, reqVars, callVars, runVars>>

\* system.py: GET /system/health (caps = FALSE) and GET /system/capabilities
\* (caps = TRUE), which also answers docling_enabled
SystemEndpoint(caps, p1, p2) ==
    /\ IF IsConfigured(DOCLING_SERVICE_URL)
          /\ needs_recheck(DOCLING_SERVICE_URL, last_check_time, now)
       THEN check_health(FALSE, p1, p2)
       ELSE UNCHANGED trackerVars
    /\ IF caps
       THEN /\ last_op' = "capabilities"
            /\ docling_available' =
                   IF docling_enabled_of(DOCLING_SERVICE_URL, is_reachable')
                   THEN "True" ELSE "False"
       ELSE /\ last_op' = "health"
            /\ UNCHANGED docling_available
    /\ UNCHANGED <<configVars, gateVars, coVars, now, triageVars, reqVars, callVars, runVars>>

\* an invalidate() that restarts the TTL from now
InvalidateToNow ==
    /\ last_check_time' = now
    /\ last_op' = "invalidate"
    /\ UNCHANGED <<is_reachable, last_error, docling_available>>
    /\ UNCHANGED <<configVars, gateVars, coVars, now, triageVars, reqVars, callVars, runVars>>

\* an invalidate() that forgets what the last check found
InvalidateForgetsAll ==
    /\ last_check_time' = NoTime
    /\ is_reachable' = None
    /\ last_error' = None
    /\ last_op' = "invalidate"
    /\ UNCHANGED docling_available
    /\ UNCHANGED <<configVars, gateVars, coVars, now, triageVars, reqVars, callVars, runVars>>

\* DoclingHealthService.invalidate()
Invalidate ==
    /\ last_check_time' = NoTime
    /\ last_op' = "invalidate"
    /\ UNCHANGED <<is_reachable, last_error, docling_available>>
    /\ UNCHANGED <<configVars, gateVars, coVars, now, triageVars, reqVars, callVars, runVars>>

\* time passes
Tick ==
    /\ now + TickSecs <= MaxTime
    /\ now' = now + TickSecs
    /\ UNCHANGED <<configVars, gateVars, coVars, healthVars, triageVars, reqVars, callVars, runVars>>

----------------------------------------------------------------------------
(* Backend results: (content, method, ocr_used, page_count) *)

\* Optional[int] None of page_count
NoCount == -1

MkResult(content, method, ocr_used, page_count) ==
    [content |-> content, method |-> method, ocr_used |-> ocr_used,
     page_count |-> page_count]

\* ("", "error", False, None)
Sentinel == MkResult(<<>>, "error", FALSE, NoCount)

----------------------------------------------------------------------------
(* pdf_extraction_service.py *)

\* Most pages of a document read by extract_pdf.
MaxDocPages == 2

PageTexts == {<<>>, <<" ">>, <<"a">>}

PageSeqs == UNION {[1..n -> PageTexts] : n \in 1..MaxDocPages}

\* what fitz.open(path) gives extract_pdf: ok = FALSE when it raises
BadDoc == [ok |-> FALSE, title |-> <<>>, author |-> <<>>, pages |-> <<>>]

PdfDocs ==
    {BadDoc}
    \cup {[ok |-> TRUE, title |-> <<>>, author |-> <<>>, pages |-> ps] : ps \in PageSeqs}
    \cup {[ok |-> TRUE, title |-> t, author |-> a, pages |-> <<pg>>] :
             t \in {<<>>, <<"a">>}, a \in {<<>>, <<"a">>}, pg \in {<<>>, <<"a">>}}

\* "\n\n".join(parts)
RECURSIVE Join(_)
Join(parts) ==
    IF parts = <<>> THEN <<>>
    ELSE IF Len(parts) = 1 THEN parts[1]
    ELSE parts[1] \o <<"\n", "\n">> \o Join(Tail(parts))

\* the parts appended for pages i..Len(pages)
RECURSIVE PageParts(_, _)
PageParts(pages, i) ==
    IF i > Len(pages) THEN <<>>
    ELSE LET text == pages[i]
             here ==
                 IF Strip(text) # <<>> THEN
                     (IF Len(pages) > 1 /\ i > 1
                      THEN << <<"\n", "-", "-", "-", "\n", "\n", "*", "P", "*", "\n">> >>
                      ELSE <<>>)
                     \o <<Strip(text)>>
                 ELSE <<>>
         IN  here \o PageParts(pages, i + 1)

\* extract_pdf(path, filename)
extract_pdf(doc, fitz) ==
    IF ~fitz THEN Sentinel
    ELSE IF ~doc.ok THEN Sentinel
    ELSE
        LET head ==
                (IF Truthy(doc.title) THEN << <<"#", " ">> \o doc.title \o <<"\n">> >> ELSE <<>>)
                \o (IF Truthy(doc.author)
                    THEN << <<"*", "A", ":", " ">> \o doc.author \o <<"*", "\n">> >> ELSE <<>>)
                \o (IF Truthy(doc.title) \/ Truthy(doc.author) THEN << <<>> >> ELSE <<>>)
            markdown_content == Join(head \o PageParts(doc.pages, 1))
            total_pages == Len(doc.pages)
        IN  IF ~Truthy(Strip(markdown_content))
            THEN MkResult(<<>>, "error", FALSE, total_pages)
            ELSE MkResult(markdown_content, "fast_pdf", FALSE, total_pages)

----------------------------------------------------------------------------
(* extraction_service.extract_markdown and                                 *)
(* metadata_extractor.extract_document_metadata: not part of the sources;  *)
(* modelled from the interface the specification gives for them.           *)

\* what extract_markdown(path, filename, media_type) can do: raise, or return
\* a tuple whose content may be empty
MarkitdownOutcomes ==
    {[raised |-> TRUE, res |-> Sentinel]}
    \cup {[raised |-> FALSE, res |-> r] :
             r \in {Sentinel, MkResult(<<>>, "text", FALSE, NoCount)}
                   \cup {MkResult(c, m, FALSE, NoCount) :
                            c \in Strs \ {<<>>}, m \in {"markitdown", "text"}}}

\* extract_document_metadata(...): the entries it adds to the response metadata
ExtractDocumentMetadata == [document |-> "document metadata"]

----------------------------------------------------------------------------
(* docling_proxy_service.py *)

V1 == "/v1/convert/file"
V1Alpha == "/v1alpha/convert/file"

\* extract_via_docling(): default of max_retries
DefaultMaxRetries == 2

timeout_extension == 30

\* a budget that stays the same on every attempt
CurrentTimeoutFlat(k) == DOCLING_TIMEOUT

\* extract_via_docling(): current_timeout of attempt k
CurrentTimeout(k) == DOCLING_TIMEOUT + (k * timeout_extension)

\* Largest max_retries a direct caller passes.
MaxRetriesArg == 2

\* a parameter set that takes every override as it comes
_get_docling_params_keep_all(endpoint, triage_overrides) ==
    LET is_alpha_api == endpoint = "/v1alpha/convert/file"
        defaults ==
            [to_formats |-> <<"md">>, image_export_mode |-> "placeholder", do_ocr |-> TRUE,
             ocr_engine |-> "easyocr", table_mode |-> "accurate", include_images |-> FALSE]
        params == IF is_alpha_api THEN defaults ELSE [pipeline |-> "standard"] @@ defaults
    IN  [k \in DOMAIN params \cup DOMAIN triage_overrides |->
            IF k \in DOMAIN triage_overrides THEN triage_overrides[k] ELSE params[k]]

\* _get_docling_params(endpoint, triage_overrides)
_get_docling_params(endpoint, triage_overrides) ==
    LET endpoint_path == IF endpoint = None THEN V1 ELSE endpoint
        is_alpha_api == endpoint_path = V1Alpha
        base == {"to_formats", "image_export_mode", "do_ocr", "ocr_engine",
                 "table_mode", "include_images"}
                \cup (IF is_alpha_api THEN {} ELSE {"pipeline"})
        default(k) ==
            CASE k = "to_formats" -> <<"md">>
              [] k = "image_export_mode" -> "placeholder"
              [] k = "do_ocr" -> TRUE
              [] k = "ocr_engine" -> "easyocr"
              [] k = "table_mode" -> "accurate"
              [] k = "include_images" -> FALSE
              [] OTHER -> "standard"
        applied == {k \in DOMAIN triage_overrides : k \in base \/ k = "pdf_backend"}
    IN  [k \in base \cup applied |->
            IF k \in applied THEN triage_overrides[k] ELSE default(k)]

\* what the GET of /openapi.json shows, and what an OPTIONS probe answers
OpenApiKinds == {"v1", "alpha", "both", "neither", "error"}
OptionsKinds == {"ok", "404", "error"}

\* the answers one detection can get: the GET of /openapi.json and the two
\* OPTIONS probes (a probe that is not sent is drawn as "ok" only)
DetectAnswers ==
    {d \in OpenApiKinds \X OptionsKinds \X OptionsKinds :
        /\ d[1] \in {"v1", "alpha", "both"} => d[2] = "ok"
        /\ d[2] = "ok" => d[3] = "ok"}

\* _detect_endpoint(client) with an empty cache and no marker in the URL
DetectResult(oa, pr1, pr2) ==
    IF oa \in {"v1", "both"} THEN V1
    ELSE IF oa = "alpha" THEN V1Alpha
    ELSE IF pr1 = "ok" THEN V1
    ELSE IF pr2 = "ok" THEN V1Alpha
    ELSE None

\* a candidate list that ignores the preferred endpoint
_build_endpoint_candidates_fixed(preferred) == <<V1, V1Alpha>>

\* _build_endpoint_candidates(preferred)
_build_endpoint_candidates(preferred) ==
    IF preferred = V1 THEN <<V1, V1Alpha>>
    ELSE IF preferred = V1Alpha THEN <<V1Alpha, V1>>
    ELSE <<V1, V1Alpha>>

\* what one file POST can do: raise httpx.TimeoutException, raise another
\* exception, or answer 404, 422 naming the "file" field, another 422,
\* another error status, or 2xx
PostKinds == {"timeout", "error", "404", "422file", "422other", "500", "ok"}

\* the POST to each candidate under "files", and the re-send under "file"
\* (an answer that is never asked for is drawn as "ok" only)
PostBehaviours ==
    {svc \in [p : [1..2 -> PostKinds], re : PostKinds] :
        /\ svc.p[1] # "404" => svc.p[2] = "ok"
        /\ (IF svc.p[1] = "404" THEN svc.p[2] ELSE svc.p[1]) # "422file" => svc.re = "ok"}

\* response.raise_for_status()
StatusKind(k) == IF k = "ok" THEN "ok" ELSE "status_error"

\* a loop over the candidates that never re-sends under another field name
PostLoopNoResend(endpoints, i, svc, overrides, before) ==
    LET post(j) ==
            [endpoint |-> endpoints[j], field_name |-> "files",
             params |-> _get_docling_params(endpoints[j], overrides), answer |-> svc.p[j]]
        end(j, posted) ==
            IF svc.p[j] \in {"timeout", "error"}
            THEN [kind |-> svc.p[j], n |-> Len(posted), used |-> endpoints[j],
                  sent |-> posted, evaluated |-> 0]
            ELSE [kind |-> StatusKind(svc.p[j]), n |-> Len(posted), used |-> endpoints[j],
                  sent |-> posted, evaluated |-> Len(posted)]
        first == Append(before, post(i))
    IN  IF svc.p[i] = "404" /\ i # Len(endpoints)
        THEN end(i + 1, Append(first, post(i + 1)))
        ELSE end(i, first)

\* extract_via_docling(): the loop over the endpoint candidates of one attempt.
\* kind: how the attempt goes on; sent: the file POSTs with their answers (n of
\* them); evaluated: the one whose response is kept; used: the endpoint whose
\* parameters are in params afterwards
RECURSIVE PostLoop(_, _, _, _, _)
PostLoop(endpoints, i, svc, overrides, before) ==
    LET k == svc.p[i]
        endpoint == endpoints[i]
        params == _get_docling_params(endpoint, overrides)
        post(field_name, answer) ==
            [endpoint |-> endpoint, field_name |-> field_name, params |-> params,
             answer |-> answer]
        first == Append(before, post("files", k))
        both == Append(first, post("file", svc.re))
    IN  IF k \in {"timeout", "error"}
            THEN [kind |-> k, n |-> Len(first), used |-> endpoint, sent |-> first,
                  evaluated |-> 0]
        ELSE IF k = "404" /\ i # Len(endpoints)
            THEN PostLoop(endpoints, i + 1, svc, overrides, first)
        ELSE IF k = "422file" THEN
            \* an exception of the re-send is swallowed: the 422 stays the response
            IF svc.re \in {"timeout", "error"}
            THEN [kind |-> "status_error", n |-> Len(both), used |-> endpoint,
                  sent |-> both, evaluated |-> Len(first)]
            ELSE [kind |-> StatusKind(svc.re), n |-> Len(both), used |-> endpoint,
                  sent |-> both, evaluated |-> Len(both)]
        ELSE [kind |-> StatusKind(k), n |-> Len(first), used |-> endpoint, sent |-> first,
              evaluated |-> Len(first)]

\* a JSON value that is a str (s) or something else
JsonVals == {[isstr |-> FALSE, s |-> <<>>]} \cup [isstr : {TRUE}, s : Strs]

NoVal == [isstr |-> FALSE, s |-> <<>>]

\* the body of a 2xx answer: JSON that does not parse, JSON that is not a
\* dict, a dict without a document dict, a document with md_content and
\* text_content, or a body of another content type (text_content, which is
\* read only under an md_content that is no str or blank, is drawn only then)
Bodies ==
    {[kind |-> k, md |-> NoVal, txt |-> NoVal, text |-> <<>>] :
        k \in {"badjson", "nondict", "nodoc"}}
    \cup {b \in [kind : {"doc"}, md : JsonVals, txt : JsonVals, text : {<<>>}] :
             (b.md.isstr /\ Strip(b.md.s) # <<>>) => b.txt = NoVal}
    \cup {[kind |-> "text", md |-> NoVal, txt |-> NoVal, text |-> c] : c \in Strs}

NoBody == [kind |-> "nodoc", md |-> NoVal, txt |-> NoVal, text |-> <<>>]

\* extract_via_docling(): "Parse response".  None is returned as "": the two
\* are told apart nowhere.
MarkdownContent(body) ==
    IF body.kind = "doc" THEN
        IF body.md.isstr /\ Truthy(Strip(body.md.s)) THEN body.md.s
        ELSE IF body.txt.isstr /\ Truthy(Strip(body.txt.s)) THEN body.txt.s
        ELSE <<>>
    ELSE IF body.kind = "text" THEN body.text
    ELSE <<>>

\* a test of the answer that takes whitespace for content
IsUsableNoStrip(markdown_content) == Truthy(markdown_content)

\* extract_via_docling(): "if markdown_content and markdown_content.strip()"
IsUsable(markdown_content) == Truthy(markdown_content) /\ Truthy(Strip(markdown_content))

\* overrides a direct caller passes as docling_params (None is the empty dict:
\* the two are told apart nowhere)
ParamOverrides ==
    { <<>>,
      [do_ocr |-> FALSE, table_mode |-> "fast"],
      [table_mode |-> "accurate", pdf_backend |-> "pypdfium2"],
      [do_ocr |-> FALSE, bogus |-> "x", pipeline |-> "vlm", include_images |-> TRUE] }

----------------------------------------------------------------------------
(* api/v1/routers/extract.py: the extraction entry point *)

NoFile == MkFile(<<>>, None, 0, NoPdf, NoDocx)
NoPlan == [engine |-> None]
NoTriage == [engine |-> None]

\* HTTPException(status_code, detail)
ErrorResponse(status, detail) ==
    [status |-> status, detail |-> detail, content_markdown |-> <<>>,
     content_chars |-> 0, method |-> "", ocr_used |-> FALSE, page_count |-> NoCount,
     metadata |-> <<>>, triage |-> NoTriage]

NoResponse == ErrorResponse(0, "")

\* extract(): TriageInfo(...)
TriageInfo(plan) ==
    [file_type |-> plan.file_type, engine |-> plan.engine, needs_ocr |-> plan.needs_ocr,
     needs_layout |-> plan.needs_layout, complexity |-> plan.complexity,
     reason |-> plan.reason,
     page_count |-> IF "page_count" \in DOMAIN plan THEN plan.page_count ELSE NoCount,
     table_count |-> IF "table_count" \in DOMAIN plan THEN plan.table_count ELSE NoCount]

\* a handler that answers 200 whatever the backend returned
RespondNoEmptyCheck(plan, res, meta_ok) ==
    IF ~meta_ok THEN ErrorResponse(500, "Extraction failed")
    ELSE
        [status |-> 200, detail |-> "", content_markdown |-> res.content,
         content_chars |-> Len(res.content), method |-> res.method,
         ocr_used |-> res.ocr_used, page_count |-> res.page_count,
         metadata |->
             [upload_path |-> "path", request_id |-> "id", elapsed_ms |-> "ms"]
                 @@ [document |-> "document metadata"],
         triage |-> NoTriage]

\* a handler that reports the planned engine as the method of the response
RespondPlanEngineAsMethod(plan, res, meta_ok) ==
    IF ~Truthy(res.content) THEN ErrorResponse(422, "No text could be extracted")
    ELSE IF ~meta_ok THEN ErrorResponse(500, "Extraction failed")
    ELSE
        [status |-> 200, detail |-> "", content_markdown |-> res.content,
         content_chars |-> Len(res.content), method |-> plan.engine,
         ocr_used |-> res.ocr_used, page_count |-> res.page_count,
         metadata |->
             [upload_path |-> "path", request_id |-> "id", elapsed_ms |-> "ms"]
                 @@ [document |-> "document metadata"],
         triage |-> NoTriage]

\* extract(): everything after the backend returned (content_md, method,
\* ocr_used, page_count) = res; meta_ok is whether extract_document_metadata
\* returns
Respond(plan, res, meta_ok) ==
    IF ~Truthy(res.content) THEN ErrorResponse(422, "No text could be extracted")
    ELSE IF ~meta_ok THEN ErrorResponse(500, "Extraction failed")
    ELSE
        [status |-> 200, detail |-> "", content_markdown |-> res.content,
         content_chars |-> Len(res.content), method |-> res.method,
         ocr_used |-> res.ocr_used, page_count |-> res.page_count,
         metadata |->
             [upload_path |-> "path", request_id |-> "id", elapsed_ms |-> "ms"]
                 @@ ExtractDocumentMetadata,
         triage |-> TriageInfo(plan)]

\* extract(): the plan; triage is called without docling_enabled
RequestPlan(f) == Triage(f, None, DOCLING_SERVICE_URL, fitz_available)

\* an engine choice that ignores the caller's override
SelectedEnginePlanOnly(e, plan) == plan.engine

\* an engine choice that takes an override it does not know for no override
SelectedEngineKnownOnly(e, plan) ==
    IF e \in {"unsupported", "fast_pdf", "markitdown", "docling"} THEN e ELSE plan.engine

\* extract(): "engine if engine and engine != 'auto' else triage_plan['engine']"
SelectedEngine(e, plan) ==
    IF e # None /\ e # "" /\ e # "auto" THEN e ELSE plan.engine

\* the locals of extract_via_docling when no call is running
IdleCall ==
    /\ max_retries' = 0
    /\ docling_params' = <<>>
    /\ attempt' = 0
    /\ detected' = None
    /\ posts' = 0
    /\ sent' = <<>>
    /\ evaluated' = 0
    /\ current_timeout' = 0
    /\ attempts_made' = 0
    /\ only_transport' = TRUE
    /\ net_used' = FALSE
    /\ outcome' = "none"

\* extract(): the request is received and planned
Receive(f, e) ==
    /\ pc = "idle"
    /\ file' = f
    /\ engine' = e
    /\ triage_plan' = RequestPlan(f)
    /\ selected_engine' = SelectedEngine(e, RequestPlan(f))
    /\ caller' = "extract"

\* a handler without the unsupported branch: the request falls into the else
\* branch and the generic converter runs
ExtractUnsupportedFallsThrough(f, e) ==
    /\ pc = "idle"
    /\ SelectedEngine(e, RequestPlan(f)) = "unsupported"
    /\ Receive(f, e)
    /\ invoked' = <<"markitdown">>
    /\ result' = Sentinel
    /\ raised' = FALSE
    /\ response' = Respond(RequestPlan(f), Sentinel, TRUE)
    /\ pc' = "done"
    /\ IdleCall
    /\ UNCHANGED <<configVars, gateVars, coVars, healthVars, now, triageVars, detected_endpoint>>

\* extract() when selected_engine == "unsupported"
ExtractUnsupported(f, e) ==
    /\ pc = "idle"
    /\ SelectedEngine(e, RequestPlan(f)) = "unsupported"
    /\ Receive(f, e)
    /\ invoked' = <<>>
    /\ result' = Sentinel
    /\ raised' = FALSE
    /\ response' = ErrorResponse(422, "Unsupported file format")
    /\ pc' = "done"
    /\ IdleCall
    /\ UNCHANGED <<configVars, gateVars, coVars, healthVars, now, triageVars, detected_endpoint>>

\* a handler that hands a PDF the fast reader got nothing from to the advanced
\* backend
ExtractFastPdfFallsBack(f, e) ==
    /\ pc = "idle"
    /\ SelectedEngine(e, RequestPlan(f)) = "fast_pdf"
    /\ Receive(f, e)
    /\ \E doc \in PdfDocs, meta_ok \in BOOLEAN :
           /\ result' = extract_pdf(doc, fitz_available)
           /\ invoked' = IF Truthy(extract_pdf(doc, fitz_available).content)
                         THEN <<"fast_pdf">> ELSE <<"fast_pdf", "docling">>
           /\ raised' = FALSE
           /\ response' = Respond(RequestPlan(f), extract_pdf(doc, fitz_available), meta_ok)
    /\ pc' = "done"
    /\ IdleCall
    /\ UNCHANGED <<configVars, gateVars, coVars, healthVars, now, triageVars, detected_endpoint>>

\* extract() when selected_engine == "fast_pdf"; doc is what PyMuPDF reads
\* from the upload
ExtractFastPdf(f, e) ==
    /\ pc = "idle"
    /\ SelectedEngine(e, RequestPlan(f)) = "fast_pdf"
    /\ Receive(f, e)
    /\ invoked' = <<"fast_pdf">>
    /\ \E doc \in PdfDocs, meta_ok \in BOOLEAN :
           /\ result' = extract_pdf(doc, fitz_available)
           /\ raised' = FALSE
           /\ response' = Respond(RequestPlan(f), extract_pdf(doc, fitz_available), meta_ok)
    /\ pc' = "done"
    /\ IdleCall
    /\ UNCHANGED <<configVars, gateVars, coVars, healthVars, now, triageVars, detected_endpoint>>

\* extract() in the else branch: markitdown and every other engine value
ExtractMarkitdown(f, e) ==
    /\ pc = "idle"
    /\ SelectedEngine(e, RequestPlan(f)) \notin {"unsupported", "fast_pdf", "docling"}
    /\ Receive(f, e)
    /\ invoked' = <<"markitdown">>
    /\ \E out \in MarkitdownOutcomes, meta_ok \in BOOLEAN :
           /\ result' = out.res
           /\ raised' = out.raised
           /\ response' = IF out.raised THEN ErrorResponse(500, "Extraction failed")
                          ELSE Respond(RequestPlan(f), out.res, meta_ok)
    /\ pc' = "done"
    /\ IdleCall
    /\ UNCHANGED <<configVars, gateVars, coVars, healthVars, now, triageVars, detected_endpoint>>

\* extract_via_docling() up to its first network request: the sentinel when
\* the URL is unset or the attempt loop is empty, else attempt 0 begins
EnterDocling(mr, params, plan) ==
    /\ max_retries' = mr
    /\ docling_params' = params
    /\ attempt' = 0
    /\ detected' = None
    /\ posts' = 0
    /\ sent' = <<>>
    /\ evaluated' = 0
    /\ current_timeout' = 0
    /\ attempts_made' = 0
    /\ only_transport' = TRUE
    /\ net_used' = FALSE
    /\ outcome' = "none"
    /\ result' = Sentinel
    /\ raised' = FALSE
    /\ IF ~IsConfigured(DOCLING_SERVICE_URL) \/ mr + 1 <= 0
       THEN /\ pc' = "done"
            /\ response' = IF caller' = "extract" THEN Respond(plan, Sentinel, TRUE)
                           ELSE NoResponse
       ELSE /\ pc' = "detect"
            /\ response' = NoResponse

\* extract() when selected_engine == "docling", up to the first await
ExtractDocling(f, e) ==
    /\ pc = "idle"
    /\ SelectedEngine(e, RequestPlan(f)) = "docling"
    /\ Receive(f, e)
    /\ invoked' = <<"docling">>
    /\ EnterDocling(DefaultMaxRetries,
                    IF "docling_params" \in DOMAIN RequestPlan(f)
                    THEN RequestPlan(f).docling_params ELSE <<>>,
                    RequestPlan(f))
    /\ UNCHANGED <<configVars, gateVars, coVars, healthVars, now, triageVars, detected_endpoint>>

\* extract_via_docling called by itself, as the tests do
DirectDocling(mr, params) ==
    /\ pc = "idle"
    /\ caller' = "direct"
    /\ UNCHANGED <<file, engine, triage_plan, selected_engine, invoked>>
    /\ EnterDocling(mr, params, NoPlan)
    /\ UNCHANGED <<configVars, gateVars, coVars, healthVars, now, triageVars, detected_endpoint>>

\* one attempt: the client is opened and _detect_endpoint(client) runs
Detect ==
    /\ pc = "detect"
    /\ IF detected_endpoint # None THEN
           /\ detected' = detected_endpoint
           /\ UNCHANGED <<detected_endpoint, net_used>>
       ELSE IF HasAlphaMarker(DOCLING_SERVICE_URL) THEN
           /\ detected' = V1Alpha
           /\ detected_endpoint' = V1Alpha
           /\ UNCHANGED net_used
       ELSE
           \E d \in DetectAnswers :
               /\ detected' = DetectResult(d[1], d[2], d[3])
               /\ detected_endpoint' = DetectResult(d[1], d[2], d[3])
               /\ net_used' = TRUE
    /\ posts' = 0
    /\ sent' = <<>>
    /\ evaluated' = 0
    /\ current_timeout' = CurrentTimeout(attempt)
    /\ attempts_made' = attempts_made + 1
    /\ outcome' = "none"
    /\ pc' = "post"
    /\ UNCHANGED <<configVars, gateVars, coVars, healthVars, now, triageVars, reqVars, caller,
                   result, raised, max_retries, docling_params, attempt, only_transport>>

\* extract_via_docling returns res to its caller; extract() then answers
Return(res, meta_ok) ==
    /\ result' = res
    /\ raised' = FALSE
    /\ pc' = "done"
    /\ response' = IF caller = "extract" THEN Respond(triage_plan, res, meta_ok)
                   ELSE response
    /\ UNCHANGED attempt

\* a proxy that lets the exception of its last attempt escape to extract()
NextAttemptRaises ==
    IF attempt < max_retries
    THEN /\ attempt' = attempt + 1
         /\ pc' = "detect"
         /\ UNCHANGED <<result, response, raised>>
    ELSE /\ raised' = TRUE
         /\ result' = Sentinel
         /\ pc' = "done"
         /\ response' = IF caller = "extract" THEN ErrorResponse(500, "Extraction failed")
                        ELSE response
         /\ UNCHANGED attempt

\* the attempt is over without a result: the next one, or the sentinel
NextAttempt ==
    IF attempt < max_retries
    THEN /\ attempt' = attempt + 1
         /\ pc' = "detect"
         /\ UNCHANGED <<result, response, raised>>
    ELSE Return(Sentinel, TRUE)

\* a proxy that takes an error status for one more failure to retry
EvaluateRetriesStatus(r, body, meta_ok) ==
    LET params == _get_docling_params(r.used, docling_params)
        markdown_content == MarkdownContent(body)
    IN  IF r.kind = "status_error" THEN outcome' = "status_error" /\ NextAttempt
        ELSE IF r.kind \in {"timeout", "error"} THEN outcome' = r.kind /\ NextAttempt
        ELSE IF body.kind = "badjson" THEN outcome' = "error" /\ NextAttempt
        ELSE IF IsUsable(markdown_content)
             THEN /\ outcome' = "usable"
                  /\ Return(MkResult(markdown_content, "docling", params["do_ocr"], NoCount),
                            meta_ok)
        ELSE outcome' = "blank" /\ NextAttempt

\* extract_via_docling(): what follows the POSTs of one attempt that went as
\* r = PostLoop(...), with body the body of a 2xx answer
Evaluate(r, body, meta_ok) ==
    LET params == _get_docling_params(r.used, docling_params)
        markdown_content == MarkdownContent(body)
    IN  IF r.kind = "status_error" THEN outcome' = "status_error" /\ Return(Sentinel, TRUE)
        ELSE IF r.kind \in {"timeout", "error"} THEN outcome' = r.kind /\ NextAttempt
        ELSE IF body.kind = "badjson" THEN outcome' = "error" /\ NextAttempt
        ELSE IF IsUsable(markdown_content)
             THEN /\ outcome' = "usable"
                  /\ Return(MkResult(markdown_content, "docling", params["do_ocr"], NoCount),
                            meta_ok)
        ELSE outcome' = "blank" /\ NextAttempt

\* one attempt: the file is posted and the answer is evaluated
Post ==
    /\ pc = "post"
    /\ \E svc \in PostBehaviours :
           LET r == PostLoop(_build_endpoint_candidates(detected), 1, svc,
                             docling_params, <<>>)
           IN  /\ posts' = r.n
               /\ sent' = r.sent
               /\ evaluated' = r.evaluated
               /\ only_transport' = (only_transport /\ r.kind \in {"timeout", "error"})
               /\ IF r.kind = "ok"
                  THEN \E body \in Bodies :
                          \E meta_ok \in IF caller = "extract" /\ IsUsable(MarkdownContent(body))
                                          THEN BOOLEAN ELSE {TRUE} :
                              Evaluate(r, body, meta_ok)
                  ELSE Evaluate(r, NoBody, TRUE)
    /\ net_used' = TRUE
    /\ UNCHANGED <<configVars, gateVars, coVars, healthVars, now, triageVars, detected_endpoint, caller,
                   file, engine, triage_plan, selected_engine, invoked,
                   max_retries, docling_params, detected, current_timeout,
                   attempts_made>>

\* the handler has returned and the response is sent; the next call starts
\* from a fresh handler
Deliver ==
    /\ pc = "done"
    /\ pc' = "idle"
    /\ caller' = "extract"
    /\ file' = NoFile
    /\ engine' = None
    /\ triage_plan' = NoPlan
    /\ selected_engine' = None
    /\ invoked' = <<>>
    /\ response' = NoResponse
    /\ result' = Sentinel
    /\ raised' = FALSE
    /\ IdleCall
    /\ UNCHANGED <<configVars, gateVars, coVars, healthVars, now, triageVars, detected_endpoint>>

NoFirst == [file |-> NoFile, docling_enabled |-> None, plan |-> NoPlan]

\* a direct call of triage()
TriageCall(f, de) ==
    /\ targs' = [file |-> f, docling_enabled |-> de]
    /\ tplan' = Triage(f, de, DOCLING_SERVICE_URL, fitz_available)
    /\ tfirst' = IF tfirst = NoFirst
                 THEN [file |-> f, docling_enabled |-> de,
                       plan |-> Triage(f, de, DOCLING_SERVICE_URL, fitz_available)]
                 ELSE tfirst
    /\ UNCHANGED <<configVars, gateVars, coVars, healthVars, now, reqVars, callVars, runVars>>

----------------------------------------------------------------------------
(* Concurrent callers: coroutines interleave at their awaits *)

\* Calls of one function that run at the same time.
NCallers == 2

Callers == 1..NCallers

\* a call of _detect_endpoint that has not begun.  cached: what the cache held
\* when the call began; reqs: the requests it sent and their answers
NoDetecting == [pc |-> "idle", cached |-> None, reqs |-> <<>>, ret |-> None]

NoChecking == [pc |-> "idle", probes |-> <<>>, ret |-> FALSE]

GetOpenApi == <<"GET", "/openapi.json">>
OptionsOf(endpoint) == <<"OPTIONS", endpoint>>

\* a reading of the self-description that prefers the alpha path
OpenApiChoiceAlphaFirst(oa) ==
    IF oa \in {"alpha", "both"} THEN V1Alpha
    ELSE IF oa = "v1" THEN V1
    ELSE None

\* _detect_endpoint(): "Try OpenAPI spec": the endpoint the answer selects
OpenApiChoice(oa) ==
    IF oa \in {"v1", "both"} THEN V1
    ELSE IF oa = "alpha" THEN V1Alpha
    ELSE None

\* a return that stores its result in the cache whatever it is
DetectEndAlwaysWrites(i, reqs, ret, write) ==
    /\ detecting' = [detecting EXCEPT ![i].pc = "done", ![i].reqs = reqs, ![i].ret = ret]
    /\ detected_endpoint' = ret

\* _detect_endpoint() returns ret, after writing it to the cache if write
DetectEnd(i, reqs, ret, write) ==
    /\ detecting' = [detecting EXCEPT ![i].pc = "done", ![i].reqs = reqs, ![i].ret = ret]
    /\ detected_endpoint' = IF write THEN ret ELSE detected_endpoint

\* _detect_endpoint() up to its first await
DetectBegin(i) ==
    /\ detecting[i].pc = "idle"
    /\ IsConfigured(DOCLING_SERVICE_URL)
    /\ IF detected_endpoint # None THEN
           /\ detecting' = [detecting EXCEPT ![i] =
                  [pc |-> "done", cached |-> detected_endpoint, reqs |-> <<>>,
                   ret |-> detected_endpoint]]
           /\ UNCHANGED detected_endpoint
       ELSE IF HasAlphaMarker(DOCLING_SERVICE_URL) THEN
           /\ detecting' = [detecting EXCEPT ![i] =
                  [pc |-> "done", cached |-> None, reqs |-> <<>>, ret |-> V1Alpha]]
           /\ detected_endpoint' = V1Alpha
       ELSE
           /\ detecting' = [detecting EXCEPT ![i] =
                  [pc |-> "openapi", cached |-> None, reqs |-> <<>>, ret |-> None]]
           /\ UNCHANGED detected_endpoint
    /\ UNCHANGED <<configVars, gateVars, checking, healthVars, now, triageVars, reqVars,
                   callVars, pc, caller, result, raised>>

\* _detect_endpoint(): the GET of /openapi.json is answered
DetectOpenApi(i, oa) ==
    /\ detecting[i].pc = "openapi"
    /\ LET reqs == Append(detecting[i].reqs, <<GetOpenApi, oa>>)
       IN  IF OpenApiChoice(oa) # None
           THEN DetectEnd(i, reqs, OpenApiChoice(oa), TRUE)
           ELSE /\ detecting' = [detecting EXCEPT ![i].pc = "probe", ![i].reqs = reqs]
                /\ UNCHANGED detected_endpoint
    /\ UNCHANGED <<configVars, gateVars, checking, healthVars, now, triageVars, reqVars,
                   callVars, pc, caller, result, raised>>

\* _detect_endpoint(): "Probe endpoints": the OPTIONS request to the next
\* candidate is answered
DetectProbe(i, pr) ==
    /\ detecting[i].pc = "probe"
    /\ LET candidates == <<V1, V1Alpha>>
           n == Len(detecting[i].reqs)
           endpoint == candidates[n]
           reqs == Append(detecting[i].reqs, <<OptionsOf(endpoint), pr>>)
       IN  IF pr = "ok" THEN DetectEnd(i, reqs, endpoint, TRUE)
           ELSE IF n < Len(candidates)
               THEN /\ detecting' = [detecting EXCEPT ![i].reqs = reqs]
                    /\ UNCHANGED detected_endpoint
           ELSE DetectEnd(i, reqs, None, FALSE)
    /\ UNCHANGED <<configVars, gateVars, checking, healthVars, now, triageVars, reqVars,
                   callVars, pc, caller, result, raised>>

\* the caller has the result; it may call again
DetectReturn(i) ==
    /\ detecting[i].pc = "done"
    /\ detecting' = [detecting EXCEPT ![i] = NoDetecting]
    /\ UNCHANGED <<configVars, gateVars, checking, healthVars, now, triageVars, reqVars,
                   callVars, pc, caller, result, raised, detected_endpoint>>

\* check_health(): the paths probed, in order
HealthPaths == <<"/health", "/openapi.json">>

\* a check that goes on to the next path after every failure
ProbeEndsCheckNever(p) == FALSE

\* check_health(): a probe that raises out of the loop over the paths:
\* httpx.ConnectError and httpx.ConnectTimeout are re-raised, and an
\* exception that is no httpx.HTTPError is not caught there
ProbeEndsCheck(p) == p \in {"connect_error", "connect_timeout", "exception"}

\* check_health() returns ret after recording reachable, error and the time
CheckEnd(i, probes, reachable, error) ==
    /\ checking' = [checking EXCEPT ![i] =
           [pc |-> "done", probes |-> probes, ret |-> (reachable = "True")]]
    /\ is_reachable' = reachable
    /\ last_error' = error
    /\ last_check_time' = now

\* check_health(force) up to its first await
CheckBegin(i, force) ==
    /\ checking[i].pc = "idle"
    /\ IF ~IsConfigured(DOCLING_SERVICE_URL) THEN
           CheckEnd(i, <<>>, "False", "DOCLING_SERVICE_URL not configured")
       ELSE IF ~force /\ ~needs_recheck(DOCLING_SERVICE_URL, last_check_time, now) THEN
           /\ checking' = [checking EXCEPT ![i] =
                  [pc |-> "done", probes |-> <<>>, ret |-> (is_reachable = "True")]]
           /\ UNCHANGED trackerVars
       ELSE
           /\ checking' = [checking EXCEPT ![i] =
                  [pc |-> "probe", probes |-> <<>>, ret |-> FALSE]]
           /\ UNCHANGED trackerVars
    /\ UNCHANGED <<last_op, docling_available>>
    /\ UNCHANGED <<configVars, gateVars, detecting, now, triageVars, reqVars,
                   callVars, runVars>>

\* system.py: GET /system/health and GET /system/capabilities up to their
\* first await: check_health() is called when a check is due
SystemBegin(i) ==
    /\ IsConfigured(DOCLING_SERVICE_URL)
    /\ needs_recheck(DOCLING_SERVICE_URL, last_check_time, now)
    /\ CheckBegin(i, FALSE)

\* check_health(): the GET of the next path is answered or raises
CheckProbe(i, p) ==
    /\ checking[i].pc = "probe"
    /\ LET n == Len(checking[i].probes) + 1
           probes == Append(checking[i].probes, <<HealthPaths[n], p>>)
       IN  IF p = "ok" THEN CheckEnd(i, probes, "True", None)
           ELSE IF ProbeEndsCheck(p) THEN
               CheckEnd(i, probes, "False",
                        IF p = "connect_error" THEN "Connection refused"
                        ELSE "exception text")
           ELSE IF n < Len(HealthPaths) THEN
               /\ checking' = [checking EXCEPT ![i].probes = probes]
               /\ UNCHANGED trackerVars
           ELSE CheckEnd(i, probes, "False", "All health endpoints returned 5xx")
    /\ UNCHANGED <<last_op, docling_available>>
    /\ UNCHANGED <<configVars, gateVars, detecting, now, triageVars, reqVars,
                   callVars, runVars>>

\* the caller has the result; it may call again
CheckReturn(i) ==
    /\ checking[i].pc = "done"
    /\ checking' = [checking EXCEPT ![i] = NoChecking]
    /\ UNCHANGED <<configVars, gateVars, detecting, healthVars, now, triageVars, reqVars,
                   callVars, runVars>>

----------------------------------------------------------------------------
(* middleware/api_key.py *)

\* Longest API key and bearer token the model draws.
MaxKeyLen == 2

KeyChars == {"k", "x"}

RECURSIVE KeysUpTo(_)
KeysUpTo(n) ==
    IF n = 0 THEN {<<>>}
    ELSE LET shorter == KeysUpTo(n - 1)
         IN  shorter \cup {Append(s, c) : s \in {t \in shorter : Len(t) = n - 1}, c \in KeyChars}

\* values of settings.SERVICE_API_KEY; the empty string is "no key configured"
Keys == KeysUpTo(MaxKeyLen)

Bearer == <<"B", "e", "a", "r", "e", "r", " ">>

\* what precedes the token in an Authorization header
Schemes ==
    { <<>>, Bearer,
      <<"b", "e", "a", "r", "e", "r", " ">>,
      <<"B", "e", "a", "r", "e", "r">>,
      <<"B", "a", "s", "i", "c", " ">> }

\* request.headers.get("Authorization", ""): an absent header is the empty
\* string; a token may carry a trailing blank
AuthHeaders ==
    {sch \o t : sch \in Schemes, t \in Keys \cup {Append(k, " ") : k \in Keys}}

SKIP_PATHS ==
    {"/api/v1/system/health", "/health", "/api/v1/docs", "/api/v1/openapi.json",
     "/api/v1/redoc"}

\* request.url.path of the requests sent
GatePaths ==
    SKIP_PATHS \cup {"/api/v1/extract", "/api/v1/system/capabilities",
                     "/api/v1/system/supported-formats", "/api/v1/system/health/"}

\* str.startswith
StartsWith(s, prefix) ==
    Len(s) >= Len(prefix) /\ SubSeq(s, 1, Len(prefix)) = prefix

\* call_next(request), and JSONResponse(status_code=401, ...)
CallNext == [passed |-> TRUE, status_code |-> 0, detail |-> ""]
Unauthorized(detail) == [passed |-> FALSE, status_code |-> 401, detail |-> detail]

NoGate == [path |-> None, auth_header |-> <<>>, answer |-> CallNext]

\* a middleware that accepts every bearer token
dispatch_any_bearer(path, auth_header, key) ==
    IF path \in SKIP_PATHS THEN CallNext
    ELSE IF ~Truthy(key) THEN CallNext
    ELSE IF ~StartsWith(auth_header, Bearer)
        THEN Unauthorized("Missing or invalid Authorization header. Expected: Bearer <token>")
    ELSE CallNext

\* ApiKeyMiddleware.dispatch(request, call_next)
dispatch(path, auth_header, key) ==
    IF path \in SKIP_PATHS THEN CallNext
    ELSE IF ~Truthy(key) THEN CallNext
    ELSE IF ~StartsWith(auth_header, Bearer)
        THEN Unauthorized("Missing or invalid Authorization header. Expected: Bearer <token>")
    ELSE LET token == SubSeq(auth_header, 8, Len(auth_header))
         IN  IF token # key THEN Unauthorized("Invalid API key")
             ELSE CallNext

\* one request goes through the middleware
ApiKeyDispatch(path, auth_header) ==
    /\ gate' = [path |-> path, auth_header |-> auth_header,
                answer |-> dispatch(path, auth_header, SERVICE_API_KEY)]
    /\ UNCHANGED <<configVars, SERVICE_API_KEY, coVars, healthVars, now, triageVars,
                   reqVars, callVars, runVars>>

----------------------------------------------------------------------------
\* the state after construction, whatever the API key
InitState ==
    /\ DOCLING_SERVICE_URL \in Urls
    /\ fitz_available \in BOOLEAN
    /\ is_reachable = None
    /\ last_check_time = NoTime
    /\ last_error = None
    /\ last_op = "none"
    /\ docling_available = None
    /\ now = 0
    /\ detected_endpoint = None
    /\ targs = [file |-> NoFile, docling_enabled |-> None]
    /\ tplan = NoPlan
    /\ tfirst = NoFirst
    /\ pc = "idle"
    /\ caller = "extract"
    /\ file = NoFile
    /\ engine = None
    /\ triage_plan = NoPlan
    /\ selected_engine = None
    /\ invoked = <<>>
    /\ response = NoResponse
    /\ max_retries = 0
    /\ docling_params = <<>>
    /\ attempt = 0
    /\ detected = None
    /\ posts = 0
    /\ sent = <<>>
    /\ evaluated = 0
    /\ current_timeout = 0
    /\ attempts_made = 0
    /\ only_transport = TRUE
    /\ net_used = FALSE
    /\ outcome = "none"
    /\ raised = FALSE
    /\ result = Sentinel
    /\ gate = NoGate
    /\ detecting = [i \in Callers |-> NoDetecting]
    /\ checking = [i \in Callers |-> NoChecking]

\* no API key is configured: every request reaches its handler
Init == SERVICE_API_KEY = <<>> /\ InitState

\* The extraction entry point and the proxy: requests and direct proxy calls.
\* extract() never reads the health tracker, which stays as constructed here.
Next ==
    \/ \E f \in ReqFiles, e \in Overrides : ExtractUnsupported(f, e)
    \/ \E f \in ReqFiles, e \in Overrides : ExtractFastPdf(f, e)
    \/ \E f \in ReqFiles, e \in Overrides : ExtractMarkitdown(f, e)
    \/ \E f \in ReqFiles, e \in Overrides : ExtractDocling(f, e)
    \/ \E mr \in -1..MaxRetriesArg, params \in ParamOverrides : DirectDocling(mr, params)
    \/ Detect
    \/ Post
    \/ Deliver

Spec == Init /\ [][Next]_vars

\* Calls of extract_via_docling one after the other, the endpoint cache kept
\* between them.  A call that has begun keeps running: the event loop resumes
\* it, and every request it awaits ends with an answer, an exception or the
\* timeout of its client.  The calls pass no overrides, or the overrides of a
\* plan; which parameters are sent has no part in how a call goes on.
ProxyParams == {<<>>, [do_ocr |-> FALSE, table_mode |-> "fast"]}

NextProxy ==
    \/ \E mr \in -1..MaxRetriesArg, params \in ProxyParams : DirectDocling(mr, params)
    \/ Detect
    \/ Post
    \/ Deliver

SpecProxy == Init /\ [][NextProxy]_vars /\ WF_vars(Detect) /\ WF_vars(Post)

\* triage() called directly on every upload and every availability argument
NextTriage == tplan = NoPlan /\ \E f \in Files, de \in OptBool : TriageCall(f, de)

SpecTriage == Init /\ [][NextTriage]_vars

\* the engine parameter of the requests sent while the tracker changes: left
\* out, or forcing the fast reader
RoutingOverrides == {None, "fast_pdf"}

\* The health tracker next to the planning of requests: health checks, time,
\* and requests up to the call of their backend.  Another coroutine runs only
\* while a handler awaits, so the tracker changes between handlers or while the
\* proxy awaits the network.
NextRouting ==
    \/ \E force \in BOOLEAN, pr \in ProbePairs :
           pc # "done" /\ CheckHealth(force, pr[1], pr[2])
    \/ \E caps \in BOOLEAN, pr \in ProbePairs :
           pc # "done" /\ SystemEndpoint(caps, pr[1], pr[2])
    \/ pc # "done" /\ Invalidate
    \/ pc # "done" /\ Tick
    \/ \E f \in ReqFiles, e \in RoutingOverrides : ExtractUnsupported(f, e)
    \/ \E f \in ReqFiles, e \in RoutingOverrides : ExtractFastPdf(f, e)
    \/ \E f \in ReqFiles, e \in RoutingOverrides : ExtractMarkitdown(f, e)
    \/ \E f \in ReqFiles, e \in RoutingOverrides : ExtractDocling(f, e)
    \/ Deliver

SpecRouting == Init /\ [][NextRouting]_vars

\* The health tracker by itself: the startup probe and other direct checks,
\* the system endpoints and invalidate(), while time passes.
NextTracker ==
    \/ \E force \in BOOLEAN, pr \in ProbePairs : CheckHealth(force, pr[1], pr[2])
    \/ \E caps \in BOOLEAN, pr \in ProbePairs : SystemEndpoint(caps, pr[1], pr[2])
    \/ Invalidate
    \/ Tick

SpecTracker == Init /\ [][NextTracker]_vars

\* the uploads triaged again and again: a PDF with little text per page, a
\* .docx without tables or images, and a text file
IdemFiles ==
    { MkFile(<<".", "p", "d", "f">>, "application/pdf", 0, MkPdf(1, 99, 0, FALSE), NoDocx),
      MkFile(DocxExt, None, 0,
             NoPdf, [ok |-> TRUE, table_count |-> 0, image_count |-> 0,
                     has_complex_tables |-> FALSE]),
      MkFile(<<".", "t", "x", "t">>, "text/plain", 0, NoPdf, NoDocx) }

\* triage() called again and again while the tracker is checked and
\* invalidated, time passes and requests are answered
NextIdem ==
    \/ \E f \in IdemFiles, de \in OptBool : pc = "idle" /\ TriageCall(f, de)
    \/ \E force \in BOOLEAN, pr \in ProbePairs :
           pc = "idle" /\ CheckHealth(force, pr[1], pr[2])
    \/ pc = "idle" /\ Invalidate
    \/ pc = "idle" /\ Tick
    \/ \E f \in ReqFiles : ExtractUnsupported(f, None)
    \/ \E f \in IdemFiles : f.mime = "text/plain" /\ ExtractMarkitdown(f, None)
    \/ Deliver

SpecIdem == Init /\ [][NextIdem]_vars

\* extract_via_docling called by several requests at once: their calls of
\* _detect_endpoint
NextDetect ==
    \/ \E i \in Callers : DetectBegin(i)
    \/ \E i \in Callers, oa \in OpenApiKinds : DetectOpenApi(i, oa)
    \/ \E i \in Callers, pr \in OptionsKinds : DetectProbe(i, pr)
    \/ \E i \in Callers : DetectReturn(i)

SpecDetect == Init /\ [][NextDetect]_vars

\* the system endpoints, the startup probe and other callers of check_health
\* running at once, while time passes
NextHealth ==
    \/ \E i \in Callers, force \in BOOLEAN : CheckBegin(i, force)
    \/ \E i \in Callers : SystemBegin(i)
    \/ \E i \in Callers, p \in ProbeKinds : CheckProbe(i, p)
    \/ \E i \in Callers : CheckReturn(i)
    \/ Tick

SpecHealth == Init /\ [][NextHealth]_vars

\* the middleware under every configured key
InitGate == SERVICE_API_KEY \in Keys /\ InitState

\* the middleware keeps nothing between requests: one request on every path
\* with every header
NextGate ==
    gate = NoGate /\ \E path \in GatePaths, auth_header \in AuthHeaders :
                         ApiKeyDispatch(path, auth_header)

SpecGate == InitGate /\ [][NextGate]_vars

----------------------------------------------------------------------------
(* Properties *)

\* extract() has answered
ExtractDone == pc = "done" /\ caller = "extract"

\* an extract request is past its planning
ExtractStarted == pc # "idle" /\ caller = "extract"

\* extract_via_docling has returned to its caller
DoclingReturned == pc = "done" /\ (caller = "direct" \/ selected_engine = "docling")

IsPdfUpload == TriageExt(file) \in PDF_EXTENSIONS
IsImageUpload == TriageExt(file) \in IMAGE_EXTENSIONS

\* the direct triage() call has returned
TriageDone == tplan # NoPlan

\* the plan of the direct triage() call before the downgrade pass
TInitialPlan ==
    InitialPlan(targs.file, TriageExt(targs.file),
                EffectiveEnabled(targs.docling_enabled, DOCLING_SERVICE_URL),
                fitz_available)

\* C1: when the effective engine of a request for a PDF is docling and the
\* proxy returned empty content, fast_pdf is invoked next; if it returns
\* content the response is a success with method fast_pdf whose metadata
\* records fallback_from = docling and fallback_to = fast_pdf.
C1_FallbackLawPdf ==
    (ExtractDone /\ selected_engine = "docling" /\ IsPdfUpload /\ outcome # "usable")
        => /\ Len(invoked) = 2
           /\ invoked[2] = "fast_pdf"
           /\ (Truthy(result.content) =>
                  /\ response.status = 200
                  /\ response.method = "fast_pdf"
                  /\ "fallback_from" \in DOMAIN response.metadata
                  /\ response.metadata["fallback_from"] = "docling"
                  /\ "fallback_to" \in DOMAIN response.metadata
                  /\ response.metadata["fallback_to"] = "fast_pdf")

\* C2: triage called with the advanced engine unavailable (docling_enabled
\* false, or omitted while DOCLING_SERVICE_URL is empty) never returns a plan
\* whose engine is docling.
C2_NeverDoclingWhenUnavailable ==
    (/\ TriageDone
     /\ \/ targs.docling_enabled = "False"
        \/ targs.docling_enabled = None /\ DOCLING_SERVICE_URL = "")
        => tplan.engine # "docling"

\* C2 witness: the URL is empty, docling_enabled is omitted, and a PDF whose
\* analysis chose docling is planned for fast_pdf.
C2_Witness ==
    /\ TriageDone
    /\ targs.docling_enabled = None
    /\ DOCLING_SERVICE_URL = ""
    /\ TInitialPlan.engine = "docling"
    /\ tplan.engine = "fast_pdf"

\* C3: when the decision before the downgrade pass is docling and the
\* advanced engine is unavailable, the final engine is fast_pdf for a PDF and
\* markitdown for every other category, and the reason carries the downgrade
\* note.
C3_DowngradeLaw ==
    (/\ TriageDone
     /\ ~EffectiveEnabled(targs.docling_enabled, DOCLING_SERVICE_URL)
     /\ TInitialPlan.engine = "docling")
        => /\ tplan.engine = IF TriageExt(targs.file) \in PDF_EXTENSIONS
                             THEN "fast_pdf" ELSE "markitdown"
           /\ \E i \in DOMAIN tplan.reason :
                  tplan.reason[i] = "Docling disabled, falling back from"

\* C3 witness: docling_enabled = False with the URL set, a PDF that needs OCR.
C3_Witness ==
    /\ TriageDone
    /\ targs.docling_enabled = "False"
    /\ IsConfigured(DOCLING_SERVICE_URL)
    /\ TInitialPlan.engine = "docling"
    /\ TInitialPlan.needs_ocr
    /\ tplan.engine = "fast_pdf"

\* C4: the plan of an extraction request follows the health tracker: when
\* the service is configured and the last health check failed the plan's
\* engine is not docling, and before any check has completed the plan is the
\* one made with the advanced engine available.
C4_PlanUsesHealth ==
    [][(pc = "idle" /\ pc' # "idle" /\ caller' = "extract"
            /\ IsConfigured(DOCLING_SERVICE_URL))
        => /\ is_reachable = "False" => triage_plan'.engine # "docling"
           /\ is_reachable = None =>
                  triage_plan' = Triage(file', "True", DOCLING_SERVICE_URL, fitz_available)]_vars

\* C5: the backend invoked is the caller's override when it is fast_pdf,
\* markitdown or docling, and the plan's engine when the override is absent,
\* empty or auto; with override fast_pdf the fast reader runs whatever the plan is.
C5_EffectiveEngine ==
    ExtractStarted
        => /\ engine \in {"fast_pdf", "markitdown", "docling"}
                => selected_engine = engine /\ invoked = <<engine>>
           /\ engine \in {None, "", "auto"}
                => /\ selected_engine = triage_plan.engine
                   /\ invoked = IF triage_plan.engine = "unsupported" THEN <<>>
                                ELSE <<triage_plan.engine>>

\* C5 witness: the plan says docling, the override says fast_pdf, and fast_pdf ran.
C5_Witness ==
    /\ ExtractDone
    /\ engine = "fast_pdf"
    /\ triage_plan.engine = "docling"
    /\ invoked = <<"fast_pdf">>

\* C6: a request whose effective engine is unsupported ends at once with the
\* 422 "unsupported format" error, which no other request gets, and invokes
\* no backend.
C6_UnsupportedShortCircuit ==
    ExtractStarted
        => /\ selected_engine = "unsupported"
                => /\ pc = "done"
                   /\ response.status = 422
                   /\ response.detail = "Unsupported file format"
                   /\ invoked = <<>>
           /\ response.detail = "Unsupported file format" => selected_engine = "unsupported"

\* C6 witness: an upload planned as unsupported, no override, answered 422.
C6_Witness ==
    /\ ExtractDone
    /\ engine = None
    /\ triage_plan.engine = "unsupported"
    /\ selected_engine = "unsupported"
    /\ response.status = 422

\* C7 as claimed: for an image upload and every override (absent, auto,
\* fast_pdf, markitdown, docling) the request is answered with a client error
\* and no backend is invoked.
C7_ImageAnyOverride ==
    (ExtractDone /\ IsImageUpload
        /\ engine \in {None, "auto", "fast_pdf", "markitdown", "docling"})
        => response.status = 422 /\ invoked = <<>>

\* C7 amended: for an image upload with the override absent or auto the
\* request is answered with the 422 client error and no backend is invoked;
\* with the override fast_pdf, markitdown or docling that backend is invoked.
C7_ImageWithoutOverride ==
    (ExtractStarted /\ IsImageUpload)
        => /\ engine \in {None, "auto"}
                => pc = "done" /\ response.status = 422 /\ invoked = <<>>
           /\ engine \in {"fast_pdf", "markitdown", "docling"} => invoked = <<engine>>

\* C7 witness: an image sent with engine=auto is answered 422, nothing invoked.
C7_Witness ==
    /\ ExtractDone
    /\ IsImageUpload
    /\ engine = "auto"
    /\ response.status = 422
    /\ invoked = <<>>

\* C8: when the last backend invoked returned empty content the request ends
\* with the 422 empty-extraction error, and every success response carries
\* non-empty content.
C8_EmptyIsClientError ==
    ExtractDone
        => /\ (invoked # <<>> /\ ~raised /\ ~Truthy(result.content))
                => /\ response.status = 422
                   /\ response.detail = "No text could be extracted"
           /\ response.status = 200
                => /\ response.content_chars > 0
                   /\ response.content_markdown = result.content
                   /\ Truthy(response.content_markdown)

\* C8 witness: fast_pdf ran, returned "", and the answer is 422.
C8_Witness ==
    /\ ExtractDone
    /\ invoked = <<"fast_pdf">>
    /\ ~raised
    /\ result.content = <<>>
    /\ response.status = 422

\* C9: extract_via_docling never raises; it returns either non-blank content
\* with method docling, an ocr flag and no page count, or exactly the
\* sentinel; with the URL unset it returns the sentinel without any network
\* request.
C9_DoclingNeverRaises ==
    DoclingReturned
        => /\ ~raised
           /\ \/ result = Sentinel
              \/ /\ Truthy(Strip(result.content))
                 /\ result.method = "docling"
                 /\ result.ocr_used \in BOOLEAN
                 /\ result.page_count = NoCount
           /\ ~IsConfigured(DOCLING_SERVICE_URL) => result = Sentinel /\ ~net_used

\* C9 witness: every attempt timed out and the call returned the sentinel.
C9_Witness ==
    /\ DoclingReturned
    /\ IsConfigured(DOCLING_SERVICE_URL)
    /\ outcome = "timeout"
    /\ attempt = max_retries
    /\ max_retries = 2
    /\ result = Sentinel
    /\ ~raised

\* C10: a 2xx answer whose content is empty or whitespace-only is a failure:
\* no result has method docling with blank content, and after a blank answer
\* the proxy either goes on to a further attempt or, when none is left,
\* returns the sentinel.
C10_BlankIsFailure ==
    /\ result.method = "docling" => Truthy(Strip(result.content))
    /\ outcome = "blank"
        => \/ pc = "detect" /\ attempt <= max_retries /\ result = Sentinel
           \/ pc = "done" /\ attempt = max_retries /\ result = Sentinel

\* C10 witness: the last of several attempts was answered with blank content
\* and the call returned the sentinel.
C10_Witness ==
    /\ DoclingReturned
    /\ outcome = "blank"
    /\ max_retries >= 1
    /\ attempt = max_retries
    /\ result = Sentinel

IsOfficeUpload == TriageExt(file) \in OFFICE_EXTENSIONS

\* C11: when the effective engine of a request for an office document is
\* docling (planned, or forced by engine=docling) and the proxy returned empty
\* content, the generic converter is invoked next; if it returns content the
\* response is a success whose metadata records fallback_from = docling and
\* fallback_to = the response's method.
C11_FallbackLawOffice ==
    (ExtractDone /\ selected_engine = "docling" /\ IsOfficeUpload /\ outcome # "usable")
        => /\ Len(invoked) = 2
           /\ invoked[2] = "markitdown"
           /\ (Truthy(result.content) =>
                  /\ response.status = 200
                  /\ "fallback_from" \in DOMAIN response.metadata
                  /\ response.metadata["fallback_from"] = "docling"
                  /\ "fallback_to" \in DOMAIN response.metadata
                  /\ response.metadata["fallback_to"] = response.method)

\* C12: when the first backend invoked returned non-empty content, no other
\* backend is invoked, and a success response has the method that backend
\* reported and neither fallback_from nor fallback_to in its metadata.
C12_NoFallbackOnSuccess ==
    (ExtractDone /\ invoked # <<>> /\ ~raised /\ Truthy(result.content))
        => /\ Len(invoked) = 1
           /\ response.status \in {200, 500}
           /\ response.status = 200
                => /\ response.method = result.method
                   /\ "fallback_from" \notin DOMAIN response.metadata
                   /\ "fallback_to" \notin DOMAIN response.metadata

\* C12 witness: the plan says docling, the caller forces fast_pdf, the fast
\* reader returns content and the response reports fast_pdf.
C12_Witness ==
    /\ ExtractDone
    /\ triage_plan.engine = "docling"
    /\ invoked = <<"fast_pdf">>
    /\ Truthy(result.content)
    /\ response.status = 200
    /\ response.method = "fast_pdf"

\* C20: the metadata of a success response has no upload_path entry.
C20_NoUploadPath ==
    (ExtractDone /\ response.status = 200)
        => "upload_path" \notin DOMAIN response.metadata

\* the upload of the direct triage() call and its availability
TFile == targs.file
TEnabled == EffectiveEnabled(targs.docling_enabled, DOCLING_SERVICE_URL)

\* the extension of that upload, in lower case
TSuffix == Lower(TFile.suffix)

\* C13: for every file whose extension, in any letter case, is an image
\* extension, triage returns engine unsupported, whether the advanced engine
\* is available or not.
C13_ImageUnsupported ==
    (TriageDone /\ TSuffix \in IMAGE_EXTENSIONS) => tplan.engine = "unsupported"

\* C13 witness: an upload named .PNG, advanced engine available, planned
\* unsupported.
C13_Witness ==
    /\ TriageDone
    /\ TFile.suffix = <<".", "P", "N", "G">>
    /\ TEnabled
    /\ tplan.engine = "unsupported"

\* C14: for every file whose extension is a text extension, triage returns
\* engine markitdown and complexity low, whatever the size and whatever the
\* availability of the advanced engine.
C14_TextIsMarkitdownLow ==
    (TriageDone /\ TSuffix \in TEXT_EXTENSIONS)
        => tplan.engine = "markitdown" /\ tplan.complexity = "low"

\* C14 witness: an .html upload as large as the office threshold, advanced
\* engine available, planned markitdown / low.
C14_Witness ==
    /\ TriageDone
    /\ TSuffix = <<".", "h", "t", "m", "l">>
    /\ TFile.size >= OFFICE_SIZE_THRESHOLD
    /\ TEnabled
    /\ tplan.engine = "markitdown"
    /\ tplan.complexity = "low"

\* a PDF that was analysed, with fewer than 100 characters per sampled page
TSparsePdf ==
    /\ TriageExt(TFile) \in PDF_EXTENSIONS
    /\ fitz_available
    /\ TFile.pdf.ok
    /\ TFile.pdf.total_text_length
           < 100 * Min(PDF_PAGES_TO_ANALYZE, TFile.pdf.total_pages)

\* C15: for every analysed PDF whose sampled pages average fewer than 100
\* characters of text the plan has needs_ocr true, and its engine is docling
\* when the advanced engine is available.
C15_SparsePdfNeedsOcr ==
    (TriageDone /\ TSparsePdf)
        => /\ tplan.needs_ocr
           /\ TEnabled => tplan.engine = "docling"

\* C15 witness: 299 characters over 3 sampled pages, advanced engine
\* available, planned docling with needs_ocr.
C15_Witness ==
    /\ TriageDone
    /\ TSparsePdf
    /\ TFile.pdf.total_text_length = 299
    /\ TEnabled
    /\ tplan.needs_ocr
    /\ tplan.engine = "docling"

\* the content analysis of a .docx asks for docling
TContentRouted ==
    /\ TriageExt(TFile) = DocxExt
    /\ TEnabled
    /\ TFile.docx.ok
    /\ \/ TFile.docx.has_complex_tables
       \/ TFile.docx.image_count > 3
       \/ TFile.docx.table_count > 3 /\ 10 * TFile.size > 25 * 1024 * 1024

\* C16: for every office file that content analysis does not send to docling,
\* the engine is docling exactly when the size is at least
\* OFFICE_SIZE_THRESHOLD and the advanced engine is available, and otherwise
\* markitdown with complexity low; a .docx under the threshold without tables
\* or images gets markitdown.
C16_OfficeSizeRouting ==
    (TriageDone /\ TriageExt(TFile) \in OFFICE_EXTENSIONS)
        => /\ ~TContentRouted
                => /\ tplan.engine = "docling"
                        <=> (TFile.size >= OFFICE_SIZE_THRESHOLD /\ TEnabled)
                   /\ tplan.engine # "docling"
                        => tplan.engine = "markitdown" /\ tplan.complexity = "low"
           /\ (/\ TriageExt(TFile) = DocxExt
               /\ TFile.size < OFFICE_SIZE_THRESHOLD
               /\ TFile.docx.ok
               /\ TFile.docx.table_count = 0
               /\ TFile.docx.image_count = 0)
                => tplan.engine = "markitdown"

\* C16 witness: a presentation of exactly the threshold size, advanced engine
\* available, planned docling.
C16_Witness ==
    /\ TriageDone
    /\ TriageExt(TFile) \in OFFICE_PRESENTATION_EXTENSIONS
    /\ TFile.size = OFFICE_SIZE_THRESHOLD
    /\ TEnabled
    /\ tplan.engine = "docling"

\* C17: in every state of the health tracker the availability flag is true
\* exactly when the service is configured and the cached reachability is
\* unknown or true, and /system/capabilities answers that flag.
C17_AvailabilityFlag ==
    /\ docling_enabled_of(DOCLING_SERVICE_URL, is_reachable)
           <=> (IsConfigured(DOCLING_SERVICE_URL) /\ is_reachable \in {None, "True"})
    /\ ~IsConfigured(DOCLING_SERVICE_URL)
           => ~docling_enabled_of(DOCLING_SERVICE_URL, is_reachable)
    /\ is_reachable = "False" => ~docling_enabled_of(DOCLING_SERVICE_URL, is_reachable)
    /\ last_op = "capabilities"
           => docling_available =
                  IF IsConfigured(DOCLING_SERVICE_URL) /\ is_reachable \in {None, "True"}
                  THEN "True" ELSE "False"

\* C17 witness: the service is configured, the last check failed, and
\* /system/capabilities answered docling_available = false.
C17_Witness ==
    /\ IsConfigured(DOCLING_SERVICE_URL)
    /\ is_reachable = "False"
    /\ last_op = "capabilities"
    /\ docling_available = "False"

\* C18: needs_recheck() is true exactly when the service is configured and
\* either no check time is recorded or at least TTL seconds have passed since
\* the last check; right after a completed check it is false, and it is
\* always false when the service is unconfigured.
C18_NeedsRecheck ==
    /\ needs_recheck(DOCLING_SERVICE_URL, last_check_time, now)
           <=> /\ IsConfigured(DOCLING_SERVICE_URL)
               /\ \/ last_check_time = NoTime
                  \/ now - last_check_time >= _DEFAULT_TTL
    /\ last_check_time = now
           => ~needs_recheck(DOCLING_SERVICE_URL, last_check_time, now)
    /\ ~IsConfigured(DOCLING_SERVICE_URL)
           => ~needs_recheck(DOCLING_SERVICE_URL, last_check_time, now)

\* C18 witness: a check completed, exactly the TTL has passed since, and a
\* recheck is due.
C18_Witness ==
    /\ IsConfigured(DOCLING_SERVICE_URL)
    /\ last_check_time # NoTime
    /\ now - last_check_time = _DEFAULT_TTL
    /\ needs_recheck(DOCLING_SERVICE_URL, last_check_time, now)

\* C19: with the service configured, from invalidate() on and however much
\* time passes, needs_recheck() is true until the next call of the tracker,
\* and a system endpoint called next performs a fresh check.
C19_InvalidateForcesRecheck ==
    [][IsConfigured(DOCLING_SERVICE_URL)
        => /\ last_op' = "invalidate"
                => needs_recheck(DOCLING_SERVICE_URL, last_check_time', now')
           /\ (last_op = "invalidate" /\ last_op' \in {"health", "capabilities"})
                => /\ last_check_time' = now'
                   /\ is_reachable' \in {"True", "False"}]_vars

\* C19 witness: a check succeeded, less than the TTL has passed, and
\* invalidate() was called.
C19_Witness ==
    /\ IsConfigured(DOCLING_SERVICE_URL)
    /\ last_op = "invalidate"
    /\ is_reachable = "True"
    /\ last_check_time = NoTime
    /\ now > 0
    /\ now < _DEFAULT_TTL

----------------------------------------------------------------------------
\* C21: API-key gate.  With a key configured, a request to a path outside the
\* exempt set reaches its handler only if its Authorization header is exactly
\* "Bearer " followed by the key, and is otherwise answered 401; exempt paths,
\* and every path when no key is configured, always reach the handler.
C21_ApiKeyGate ==
    gate.path # None =>
        LET exempt == gate.path \in {"/api/v1/system/health", "/health", "/api/v1/docs",
                                     "/api/v1/openapi.json", "/api/v1/redoc"}
            exact == gate.auth_header =
                         <<"B", "e", "a", "r", "e", "r", " ">> \o SERVICE_API_KEY
        IN  /\ gate.answer.passed <=> (exempt \/ SERVICE_API_KEY = <<>> \/ exact)
            /\ ~gate.answer.passed => gate.answer.status_code = 401

\* a key is configured and a bearer token other than the key is refused on
\* the extraction path
C21_Witness ==
    /\ SERVICE_API_KEY = <<"k">>
    /\ gate.path = "/api/v1/extract"
    /\ gate.auth_header = <<"B", "e", "a", "r", "e", "r", " ", "x">>
    /\ ~gate.answer.passed
    /\ gate.answer.status_code = 401

----------------------------------------------------------------------------
----------------------------------------------------------------------------
\* C23 as stated: the detected-endpoint cache is set once.  Once it holds an
\* endpoint it is never reset and never overwritten with another endpoint,
\* however the concurrent calls of extract_via_docling interleave.
C23_CacheSetOnce ==
    [][detected_endpoint # None => detected_endpoint' = detected_endpoint]_vars

\* C23 amended: the cache is never reset once it holds an endpoint, and it is
\* written only by a call of _detect_endpoint that began while it was empty,
\* with the endpoint that call returns; a call that begins while the cache
\* holds an endpoint returns that endpoint, sends no request and leaves the
\* cache as it is.
C23_WrittenByFirstCallsOnly ==
    [][/\ detected_endpoint # None => detected_endpoint' # None
       /\ detected_endpoint' # detected_endpoint =>
              \E i \in Callers :
                  /\ detecting[i].pc # "done"
                  /\ detecting'[i].pc = "done"
                  /\ detecting'[i].cached = None
                  /\ detecting'[i].ret = detected_endpoint'
       /\ \A i \in Callers :
              (detecting[i].pc = "idle" /\ detecting'[i].pc # "idle"
                   /\ detected_endpoint # None) =>
                  /\ detecting'[i].pc = "done"
                  /\ detecting'[i].ret = detected_endpoint
                  /\ detecting'[i].reqs = <<>>
                  /\ detected_endpoint' = detected_endpoint
    ]_vars

\* two calls began with an empty cache; one stored /v1/convert/file and the
\* other, returning later, stored /v1alpha/convert/file over it
C23_Witness ==
    \E i \in Callers, j \in Callers :
        /\ detecting[i].pc = "done" /\ detecting[i].cached = None
        /\ detecting[i].ret = "/v1/convert/file"
        /\ detecting[j].pc = "done" /\ detecting[j].cached = None
        /\ detecting[j].ret = "/v1alpha/convert/file"
        /\ detected_endpoint = "/v1alpha/convert/file"

----------------------------------------------------------------------------
\* the step in which call i of _detect_endpoint, begun with an empty cache,
\* returns
DetectFinishes(i) ==
    detecting[i].pc # "done" /\ detecting'[i].pc = "done" /\ detecting'[i].cached = None

\* C25: endpoint detection order with an empty cache.  (1) With the v1alpha
\* marker in the base URL, /v1alpha/convert/file is chosen and no request is
\* sent.  (2) Otherwise the self-description is asked first, and
\* /v1/convert/file is chosen if listed, else /v1alpha/convert/file if listed.
\* (3) Otherwise /v1/convert/file and then /v1alpha/convert/file are probed
\* and the first whose answer is not 404 is chosen.  What is chosen is written
\* to the cache; if nothing is chosen the call leaves the cache as it is.
C25_DetectionOrder ==
    [][\A i \in Callers : DetectFinishes(i) =>
        LET reqs == detecting'[i].reqs
            ret == detecting'[i].ret
            listed(e) == reqs[1][2] = "both" \/ reqs[1][2] = e
            chosen ==
                IF DOCLING_SERVICE_URL = "http://docling:8080/v1alpha"
                    THEN "/v1alpha/convert/file"
                ELSE IF listed("v1") THEN "/v1/convert/file"
                ELSE IF listed("alpha") THEN "/v1alpha/convert/file"
                ELSE IF reqs[2][2] = "ok" THEN "/v1/convert/file"
                ELSE IF reqs[3][2] = "ok" THEN "/v1alpha/convert/file"
                ELSE None
            asked == [k \in 1..Len(reqs) |-> reqs[k][1]]
            expected ==
                IF DOCLING_SERVICE_URL = "http://docling:8080/v1alpha" THEN <<>>
                ELSE IF listed("v1") \/ listed("alpha") THEN << <<"GET", "/openapi.json">> >>
                ELSE IF reqs[2][2] = "ok"
                    THEN << <<"GET", "/openapi.json">>, <<"OPTIONS", "/v1/convert/file">> >>
                ELSE << <<"GET", "/openapi.json">>, <<"OPTIONS", "/v1/convert/file">>,
                       <<"OPTIONS", "/v1alpha/convert/file">> >>
        IN  /\ ret = chosen
            /\ Len(asked) = Len(expected)
            /\ \A k \in 1..Len(asked) : asked[k] = expected[k]
            /\ detected_endpoint' = IF chosen # None THEN chosen ELSE detected_endpoint
    ]_vars

\* the self-description lists both paths and /v1/convert/file is cached
C25_Witness ==
    \E i \in Callers :
        /\ detecting[i].pc = "done"
        /\ detecting[i].cached = None
        /\ detecting[i].reqs = << << <<"GET", "/openapi.json">>, "both">> >>
        /\ detecting[i].ret = "/v1/convert/file"
        /\ detected_endpoint = "/v1/convert/file"

----------------------------------------------------------------------------
\* C24: retry schedule.  Attempt k of extract_via_docling (counting from 0)
\* runs under its own budget DOCLING_TIMEOUT + 30*k seconds; when the service
\* URL is set and every attempt ends in a timeout or another transport error,
\* exactly max_retries + 1 attempts are made and the call returns the
\* sentinel.
C24_RetrySchedule ==
    /\ pc = "post" =>
           /\ current_timeout = DOCLING_TIMEOUT + 30 * attempt
           /\ attempts_made = attempt + 1
    /\ (DoclingReturned /\ IsConfigured(DOCLING_SERVICE_URL) /\ only_transport) =>
           /\ attempts_made = max_retries + 1
           /\ result = Sentinel
           /\ ~raised

\* three attempts under 300, 330 and 360 seconds timed out
C24_Witness ==
    /\ DoclingReturned
    /\ IsConfigured(DOCLING_SERVICE_URL)
    /\ only_transport
    /\ max_retries = 2
    /\ attempts_made = 3
    /\ current_timeout = 360
    /\ outcome = "timeout"
    /\ result = Sentinel

----------------------------------------------------------------------------
\* C26: concurrent health checks are collapsed.  At most one probe of the
\* external service is in flight at any moment.
C26_ChecksCollapsed ==
    Cardinality({i \in Callers : checking[i].pc = "probe"}) <= 1

----------------------------------------------------------------------------
\* the step in which check i gets the answer of a probe
ProbeAnswered(i) == Len(checking'[i].probes) = Len(checking[i].probes) + 1

\* C30: in a health check, a connection-level failure on a probed path ends
\* the check at once: no further path is probed, reachability becomes false,
\* last_error records the failure and the check time is stamped.  A
\* non-connection HTTP error or a 5xx answer lets the check go on with the
\* next path.
C30_ConnectFailureIsTerminal ==
    [][\A i \in Callers : ProbeAnswered(i) =>
        LET probes == checking'[i].probes
            n == Len(probes)
            path == probes[n][1]
            answer == probes[n][2]
        IN  /\ path = IF n = 1 THEN "/health" ELSE "/openapi.json"
            /\ answer \in {"connect_error", "connect_timeout"} =>
                   /\ checking'[i].pc = "done"
                   /\ ~checking'[i].ret
                   /\ is_reachable' = "False"
                   /\ last_error' \in {"Connection refused", "exception text"}
                   /\ last_check_time' = now
            /\ (answer \in {"5xx", "http_error"} /\ n = 1) =>
                   /\ checking'[i].pc = "probe"
                   /\ UNCHANGED <<is_reachable, last_error, last_check_time>>
    ]_vars

\* the connection to /health was refused while the service counted as
\* reachable: the check is over after that one probe
C30_Witness ==
    \E i \in Callers :
        /\ checking[i].pc = "done"
        /\ checking[i].probes = << <<"/health", "connect_error">> >>
        /\ is_reachable = "False"
        /\ last_error = "Connection refused"
        /\ last_check_time = now
        /\ now > 0

----------------------------------------------------------------------------
\* C27: no reverse fallback.  In an extraction request whose effective engine
\* is fast_pdf or markitdown the advanced backend is never invoked and the
\* proxy sends nothing, also when the fast engine returns empty content.
C27_NoReverseFallback ==
    (ExtractDone /\ selected_engine \in {"fast_pdf", "markitdown"}) =>
        /\ \A k \in 1..Len(invoked) : invoked[k] # "docling"
        /\ attempts_made = 0
        /\ ~net_used

\* the fast reader returned nothing from a PDF while the advanced backend is
\* configured: the request is answered 422 after the fast reader alone
C27_Witness ==
    /\ ExtractDone
    /\ selected_engine = "fast_pdf"
    /\ IsConfigured(DOCLING_SERVICE_URL)
    /\ result.content = <<>>
    /\ response.status = 422
    /\ invoked = <<"fast_pdf">>

----------------------------------------------------------------------------
\* the step in which the POSTs of one attempt are sent and answered
PostStep == pc = "post" /\ pc' # "post"

\* C28: field-name retry.  Within one attempt, a POST under "files" that is
\* answered 422 with a validation detail naming "file" is followed by one
\* re-send of the same request to the same endpoint under "file", and by
\* nothing else; the response of the re-send is the one evaluated; the re-send
\* belongs to the same attempt.  Nothing else is ever sent under "file".
C28_FieldNameRetry ==
    [][PostStep =>
        \A k \in 1..Len(sent') :
            /\ (sent'[k].field_name = "files" /\ sent'[k].answer = "422file") =>
                   /\ Len(sent') = k + 1
                   /\ sent'[k + 1].field_name = "file"
                   /\ sent'[k + 1].endpoint = sent'[k].endpoint
                   /\ sent'[k + 1].params = sent'[k].params
                   /\ sent'[k + 1].answer \notin {"timeout", "error"} =>
                          /\ evaluated' = k + 1
                          /\ sent'[k + 1].answer = "ok" => outcome' # "status_error"
                          /\ sent'[k + 1].answer # "ok" =>
                                 outcome' = "status_error" /\ result' = Sentinel
                   /\ attempts_made' = attempts_made
                   /\ attempt' \in {attempt, attempt + 1}
            /\ sent'[k].field_name = "file" =>
                   /\ k > 1
                   /\ sent'[k - 1].field_name = "files"
                   /\ sent'[k - 1].answer = "422file"
    ]_vars

\* the first attempt posted under "files", was told to use "file", re-sent,
\* and the answer of the re-send was returned as the result
C28_Witness ==
    /\ DoclingReturned
    /\ attempts_made = 1
    /\ Len(sent) = 2
    /\ sent[1].field_name = "files"
    /\ sent[1].answer = "422file"
    /\ sent[2].field_name = "file"
    /\ sent[2].answer = "ok"
    /\ evaluated = 2
    /\ outcome = "usable"
    /\ result.method = "docling"

----------------------------------------------------------------------------
\* the parameters a POST to endpoint carries when the defaults are given by
\* defaults and the overrides are those of the call
ParamsFrom(defaults) ==
    LET taken == {k \in DOMAIN docling_params : k \in DOMAIN defaults \/ k = "pdf_backend"}
    IN  [k \in DOMAIN defaults \cup taken |->
            IF k \in taken THEN docling_params[k] ELSE defaults[k]]

SameParams(p, q) == DOMAIN p = DOMAIN q /\ \A k \in DOMAIN p : p[k] = q[k]

\* C29 as stated: the parameter set submitted to the external service equals
\* the fixed defaults (markdown output, placeholder images, do_ocr true,
\* easyocr, table_mode accurate) with each override applied exactly when its
\* key is one of the default keys or pdf_backend, other override keys being
\* dropped; on success the returned ocr_used equals the effective do_ocr.
C29_FiveDefaults ==
    /\ \A k \in 1..Len(sent) :
           SameParams(sent[k].params,
                      ParamsFrom([to_formats |-> <<"md">>, image_export_mode |-> "placeholder",
                                  do_ocr |-> TRUE, ocr_engine |-> "easyocr",
                                  table_mode |-> "accurate"]))
    /\ (DoclingReturned /\ outcome = "usable") =>
           result.ocr_used = IF "do_ocr" \in DOMAIN docling_params
                             THEN docling_params["do_ocr"] ELSE TRUE

\* C29 amended: the defaults are markdown output, placeholder images, do_ocr
\* true, easyocr, table_mode accurate, include_images false and, unless the
\* endpoint is the v1alpha one, pipeline standard; an override is applied
\* exactly when its key is one of these defaults of the endpoint or
\* pdf_backend, and is dropped otherwise; on success the returned ocr_used
\* equals the effective do_ocr.
C29_SubmittedParams ==
    /\ \A k \in 1..Len(sent) :
           LET common == [to_formats |-> <<"md">>, image_export_mode |-> "placeholder",
                          do_ocr |-> TRUE, ocr_engine |-> "easyocr",
                          table_mode |-> "accurate", include_images |-> FALSE]
               defaults == IF sent[k].endpoint = "/v1alpha/convert/file" THEN common
                           ELSE [pipeline |-> "standard"] @@ common
           IN  SameParams(sent[k].params, ParamsFrom(defaults))
    /\ (DoclingReturned /\ outcome = "usable") =>
           result.ocr_used = IF "do_ocr" \in DOMAIN docling_params
                             THEN docling_params["do_ocr"] ELSE TRUE

\* a caller passed do_ocr, pipeline, include_images and an unknown key; the
\* file went to the v1alpha endpoint without pipeline and without the unknown
\* key, and the result reports that no OCR was used
C29_Witness ==
    /\ DoclingReturned
    /\ outcome = "usable"
    /\ DOMAIN docling_params = {"do_ocr", "bogus", "pipeline", "include_images"}
    /\ sent[evaluated].endpoint = "/v1alpha/convert/file"
    /\ DOMAIN sent[evaluated].params =
           {"to_formats", "image_export_mode", "do_ocr", "ocr_engine", "table_mode",
            "include_images"}
    /\ sent[evaluated].params["include_images"] = TRUE
    /\ sent[evaluated].params["do_ocr"] = FALSE
    /\ result.ocr_used = FALSE
----------------------------------------------------------------------------
(* The PDF decision table *)

\* the direct triage() call planned a PDF that PyMuPDF opened and analysed
TAnalysedPdf ==
    /\ TriageDone
    /\ TriageExt(TFile) \in PDF_EXTENSIONS
    /\ fitz_available
    /\ TFile.pdf.ok

\* the pages of that PDF that were sampled
TPagesChecked == Min(PDF_PAGES_TO_ANALYZE, TFile.pdf.total_pages)

\* the sampled pages average fewer than 100 characters (an average over no
\* page is 0)
TNeedsOcr ==
    TPagesChecked = 0 \/ TFile.pdf.total_text_length < 100 * TPagesChecked

\* a layout signal is raised: blocks or images per page over their
\* thresholds, a table found, or several columns found
TIsComplex ==
    \/ TPagesChecked > 0 /\ TFile.pdf.total_blocks > PDF_BLOCK_THRESHOLD * TPagesChecked
    \/ TPagesChecked > 0 /\ TFile.pdf.total_images > PDF_IMAGE_THRESHOLD * TPagesChecked
    \/ TFile.pdf.has_tables
    \/ TFile.pdf.has_multi_column

\* C31: for every analysed PDF with the advanced engine available, (engine,
\* complexity) is (docling, high) when OCR is needed, whatever the layout
\* signals; (docling, medium) when OCR is not needed and the layout is
\* complex; (fast_pdf, low) otherwise.
C31_PdfDecisionTable ==
    (TAnalysedPdf /\ TEnabled)
        => <<tplan.engine, tplan.complexity>> =
               IF TNeedsOcr THEN <<"docling", "high">>
               ELSE IF TIsComplex THEN <<"docling", "medium">>
               ELSE <<"fast_pdf", "low">>

\* C31 witness: a PDF that needs OCR and also has tables and two columns,
\* advanced engine available, planned docling / high.
C31_Witness ==
    /\ TAnalysedPdf
    /\ TEnabled
    /\ TNeedsOcr
    /\ TFile.pdf.has_tables
    /\ TFile.pdf.has_multi_column
    /\ tplan.engine = "docling"
    /\ tplan.complexity = "high"

\* the direct triage() call planned a PDF that could not be analysed: PyMuPDF
\* is missing, or opening or analysing the file raised
TPdfAnalysisFailed ==
    /\ TriageDone
    /\ TriageExt(TFile) \in PDF_EXTENSIONS
    /\ (~fitz_available \/ ~TFile.pdf.ok)

\* C32: whenever the PDF cannot be opened or analysed, the PDF library being
\* unavailable included, triage returns a plan: complexity medium, engine
\* docling if the advanced engine is available and fast_pdf otherwise, and a
\* reason that names the failure (the exception, or the missing library).
C32_PdfAnalyzerFailure ==
    TPdfAnalysisFailed
        => /\ tplan.complexity = "medium"
           /\ tplan.engine = IF TEnabled THEN "docling" ELSE "fast_pdf"
           /\ IF fitz_available
              THEN \E i \in DOMAIN tplan.reason : tplan.reason[i] = "error"
              ELSE tplan.reason = <<"PyMuPDF not available, using fallback routing">>

\* C32 witness: PyMuPDF is there, opening the file raised, advanced engine
\* available: planned docling / medium with the error in the reason.
C32_Witness ==
    /\ TPdfAnalysisFailed
    /\ fitz_available
    /\ TEnabled
    /\ tplan.engine = "docling"
    /\ tplan.complexity = "medium"
    /\ tplan.reason = <<"PDF analysis failed", "error", "using cautious routing">>

----------------------------------------------------------------------------
(* The content rule for office documents *)

\* what the structural analysis of the upload found asks for docling: a nested
\* table or a merged cell, more than 3 images, or more than 3 tables in a file
\* of more than 2.5 MB
TContentSignals ==
    /\ TFile.docx.ok
    /\ \/ TFile.docx.has_complex_tables
       \/ TFile.docx.image_count > 3
       \/ TFile.docx.table_count > 3 /\ 10 * TFile.size > 25 * 1024 * 1024

\* the engine of the size-based rule
TSizeBasedEngine ==
    IF TFile.size >= OFFICE_SIZE_THRESHOLD /\ TEnabled THEN "docling" ELSE "markitdown"

\* C33: for every office document (.doc or .docx), with the advanced
\* engine available and signals returned by the structural analysis, the
\* engine is docling when the signals ask for it; otherwise the size-based
\* rule decides.
C33_OfficeContentRule ==
    (TriageDone /\ TriageExt(TFile) \in OFFICE_DOCUMENT_EXTENSIONS)
        => tplan.engine = IF TEnabled /\ TContentSignals THEN "docling"
                          ELSE TSizeBasedEngine

----------------------------------------------------------------------------
(* The downgrade pass *)

\* the direct triage() call went through the downgrade pass: the decision was
\* docling and the advanced engine is unavailable
TDowngraded == TriageDone /\ ~TEnabled /\ TInitialPlan.engine = "docling"

\* C34: the downgrade pass keeps needs_ocr, needs_layout and complexity of the
\* original decision, and the final reason is the reason of the original
\* decision followed by a downgrade note.
C34_DowngradeAppendsNote ==
    TDowngraded
        => /\ tplan.needs_ocr = TInitialPlan.needs_ocr
           /\ tplan.needs_layout = TInitialPlan.needs_layout
           /\ tplan.complexity = TInitialPlan.complexity
           /\ Len(tplan.reason) > Len(TInitialPlan.reason)
           /\ SubSeq(tplan.reason, 1, Len(TInitialPlan.reason)) = TInitialPlan.reason
           /\ tplan.reason[Len(TInitialPlan.reason) + 1]
                  = "Docling disabled, falling back from"

----------------------------------------------------------------------------
(* The parameters a plan carries for the advanced engine *)

\* the plan of the direct triage() call carries docling_params
TCarriesParams == TriageDone /\ "docling_params" \in DOMAIN tplan

\* C35 as stated: a plan carries docling_params only when its engine is
\* docling; plans routed to fast_pdf, markitdown or unsupported carry none.
C35_ParamsOnlyForDocling ==
    TCarriesParams => tplan.engine = "docling"

\* C35 amended: a plan carries docling_params exactly when it is the plan of
\* a successfully analysed PDF that did not go through the downgrade pass,
\* whether its engine is docling or fast_pdf; plans routed to markitdown or
\* unsupported carry none.
C35_ParamsOfAnalysedPdf ==
    TriageDone
        => /\ TCarriesParams <=> (TAnalysedPdf /\ ~TDowngraded)
           /\ tplan.engine \in {"markitdown", "unsupported"} => ~TCarriesParams

\* C35 witness: a simple PDF with text on its pages, advanced engine
\* available, planned fast_pdf, and the plan carries do_ocr = false and
\* table_mode = fast.
C35_Witness ==
    /\ TAnalysedPdf
    /\ TEnabled
    /\ tplan.engine = "fast_pdf"
    /\ TCarriesParams
    /\ tplan.docling_params = [do_ocr |-> FALSE, table_mode |-> "fast"]

\* C36: the plan of every analysed PDF, with the advanced engine available,
\* includes page_count, table_count and docling_params, in which do_ocr is
\* false exactly when OCR is not needed and absent otherwise, table_mode is
\* accurate when tables were found and fast when none were, and pdf_backend
\* is pypdfium2 exactly when the document has more than 50 pages.
C36_PdfPlanParams ==
    (TAnalysedPdf /\ TEnabled)
        => /\ {"page_count", "table_count", "docling_params"} \subseteq DOMAIN tplan
           /\ tplan.page_count = TFile.pdf.total_pages
           /\ tplan.table_count = TFile.pdf.table_count
           /\ LET params == tplan.docling_params
              IN  /\ "do_ocr" \in DOMAIN params <=> ~TNeedsOcr
                  /\ "do_ocr" \in DOMAIN params => params["do_ocr"] = FALSE
                  /\ "table_mode" \in DOMAIN params
                  /\ params["table_mode"]
                         = IF TFile.pdf.has_tables THEN "accurate" ELSE "fast"
                  /\ "pdf_backend" \in DOMAIN params <=> TFile.pdf.total_pages > 50
                  /\ "pdf_backend" \in DOMAIN params
                         => params["pdf_backend"] = "pypdfium2"

\* C36 witness: a PDF of 51 pages with text and two tables, advanced engine
\* available: the plan carries do_ocr = false, table_mode = accurate and
\* pdf_backend = pypdfium2.
C36_Witness ==
    /\ TAnalysedPdf
    /\ TEnabled
    /\ TFile.pdf.total_pages = 51
    /\ TFile.pdf.table_count = 2
    /\ ~TNeedsOcr
    /\ tplan.page_count = 51
    /\ tplan.table_count = 2
    /\ tplan.docling_params
           = [do_ocr |-> FALSE, table_mode |-> "accurate", pdf_backend |-> "pypdfium2"]

----------------------------------------------------------------------------
(* Error statuses and the end of a call of the proxy *)

\* the answers of a file POST that carry an HTTP error status
ErrorStatuses == {"404", "422file", "422other", "500"}

\* C37: when the response kept by an attempt carries an HTTP error status,
\* extract_via_docling returns the sentinel in that step and starts no further
\* attempt, also when attempts remain; a further attempt is started only after
\* a timeout or another exception (no response kept, or a body that cannot be
\* read) or after a 2xx answer with blank content.
C37_StatusErrorIsFinal ==
    [][PostStep =>
        /\ (evaluated' > 0 /\ sent'[evaluated'].answer \in ErrorStatuses) =>
               /\ pc' = "done"
               /\ result' = Sentinel
               /\ ~raised'
               /\ attempt' = attempt
        /\ pc' = "detect" =>
               /\ attempt < max_retries
               /\ attempt' = attempt + 1
               /\ \/ evaluated' = 0 /\ outcome' \in {"timeout", "error"}
                  \/ /\ evaluated' > 0
                     /\ sent'[evaluated'].answer = "ok"
                     /\ outcome' \in {"error", "blank"}
    ]_vars

\* C37 witness: the first of three allowed attempts was answered 500, and the
\* call returned the sentinel after that one attempt.
C37_Witness ==
    /\ DoclingReturned
    /\ max_retries = 2
    /\ attempt = 0
    /\ attempts_made = 1
    /\ evaluated > 0
    /\ sent[evaluated].answer = "500"
    /\ outcome = "status_error"
    /\ result = Sentinel

\* a call of extract_via_docling is running
ProxyRunning == pc \in {"detect", "post"}

\* the file POSTs of the current attempt sent under the primary field name
FilesPosts == {k \in 1..Len(sent) : sent[k].field_name = "files"}

\* C38: extract_via_docling always terminates, whatever the external service
\* does: every call that has begun returns; it makes at most max_retries + 1
\* attempts; each attempt sends at most 3 file POSTs, at most one per candidate
\* endpoint under "files", the first of them to the cached endpoint when one
\* is cached, and at most one re-send under "file"; the step that posts, a
\* 404 that moves it to the second candidate included, leaves the cached
\* endpoint as it was.
C38_ProxyTerminates ==
    /\ [](pc # "idle" =>
             /\ attempts_made <= max_retries + 1
             /\ Len(sent) <= 3
             /\ \A j, k \in FilesPosts : j # k => sent[j].endpoint # sent[k].endpoint
             /\ Cardinality((1..Len(sent)) \ FilesPosts) <= 1
             /\ (Len(sent) > 0 /\ detected_endpoint # None)
                    => sent[1].endpoint = detected_endpoint)
    /\ [][PostStep => detected_endpoint' = detected_endpoint]_vars
    /\ (ProxyRunning ~> pc = "done")

\* C38 witness: /v1alpha/convert/file is cached; the attempt posted to it and
\* was answered 404, posted to /v1/convert/file and was told to use "file",
\* re-sent there: 3 POSTs, the cache unchanged, and the call returned.
C38_Witness ==
    /\ pc = "done"
    /\ caller = "direct"
    /\ detected_endpoint = V1Alpha
    /\ Len(sent) = 3
    /\ sent[1].endpoint = V1Alpha
    /\ sent[1].answer = "404"
    /\ sent[2].endpoint = V1
    /\ sent[2].answer = "422file"
    /\ sent[3].endpoint = V1
    /\ sent[3].field_name = "file"
    /\ attempts_made <= max_retries + 1

----------------------------------------------------------------------------
(* Reachability once it is known *)

\* a step in which a call of check_health completes: a direct call, or a
\* write of the tracker by anything but invalidate() (the system endpoints
\* write it only through check_health)
CheckCompletes ==
    \/ last_op' = "check" /\ last_op # "check"
    \/ last_op' # "invalidate" /\ <<is_reachable, last_check_time, last_error>>'
                                      # <<is_reachable, last_check_time, last_error>>

\* a step of invalidate()
InvalidateStep == last_op' = "invalidate" /\ last_op # "invalidate"

\* C39: reachability never returns to unknown.  When a call of check_health
\* completes (probe success, probe failure, or service unconfigured) the
\* cached reachability is true or false and a check time is recorded; no
\* later step sets reachability back to unknown; invalidate() clears the check
\* time and leaves reachability, last_error and the availability flag as they
\* were.
C39_NeverBackToUnknown ==
    /\ [](last_check_time # NoTime => is_reachable \in {"True", "False"})
    /\ [][CheckCompletes =>
              is_reachable' \in {"True", "False"} /\ last_check_time' # NoTime]_vars
    /\ [][is_reachable # None => is_reachable' # None]_vars
    /\ [][InvalidateStep =>
              /\ last_check_time' = NoTime
              /\ is_reachable' = is_reachable
              /\ last_error' = last_error
              /\ docling_enabled_of(DOCLING_SERVICE_URL, is_reachable')
                     = docling_enabled_of(DOCLING_SERVICE_URL, is_reachable)]_vars

\* C39 witness: a check found the service unreachable, and invalidate() was
\* called afterwards: the check time is cleared, reachability and the error
\* are still there.
C39_Witness ==
    /\ IsConfigured(DOCLING_SERVICE_URL)
    /\ last_op = "invalidate"
    /\ last_check_time = NoTime
    /\ is_reachable = "False"
    /\ last_error = "Connection refused"

----------------------------------------------------------------------------
(* Overrides the entry point does not know *)

\* C40: an engine override that is present (not absent, not empty) and is not
\* auto, unsupported, fast_pdf or docling, an unrecognised string included, is
\* not rejected: the generic converter (markitdown) is invoked, whatever the
\* plan says.  The override unsupported is answered with the unsupported-
\* format client error and no backend is invoked, whatever the category of
\* the file.
C40_UnknownOverrideIsMarkitdown ==
    ExtractStarted
        => /\ engine \notin {None, "", "auto", "unsupported", "fast_pdf", "docling"}
                => /\ selected_engine = engine
                   /\ invoked = <<"markitdown">>
                   /\ response.detail # "Unsupported file format"
           /\ engine = "unsupported"
                => /\ pc = "done"
                   /\ invoked = <<>>
                   /\ response.status = 422
                   /\ response.detail = "Unsupported file format"

\* C40 witness: a PDF planned for docling is sent with an override the entry
\* point does not know; markitdown ran and its content is returned.
C40_Witness ==
    /\ ExtractDone
    /\ engine = "other"
    /\ IsPdfUpload
    /\ triage_plan.engine = "docling"
    /\ invoked = <<"markitdown">>
    /\ response.status = 200

====
